---------------------------- MODULE Spec2Model ----------------------------
(***************************************************************************)
(* Ticket extraction (lib/jira.ts) and commit-to-ticket grouping           *)
(* (lib/utils.ts: generateSummary, buildPromptFromCommits) of the stand-up *)
(* summary dashboard.                                                      *)
(*                                                                         *)
(* A JavaScript string is a sequence of one-character strings; the empty   *)
(* sequence is the empty string.  A value that may be undefined / null is  *)
(* the sequence Undefined, which no string of the model equals.            *)
(***************************************************************************)
EXTENDS Integers, Sequences, FiniteSets, TLC

VARIABLES
    lastIndex,        \* JIRA_TICKET_REGEX.lastIndex, module state of jira.ts
    call,             \* the call of jira.ts in progress and what it returned
    gpc,              \* position of a generateSummary call
    commits,          \* generateSummary's argument `commits`
    flattenedCommits, \* generateSummary's local `flattenedCommits`
    ticketKeys,       \* own keys of `ticketCommits`, in insertion order
    ticketCommits,    \* ticket -> list of commits (positions in flattenedCommits)
    untrackedCommits, \* list of commits (positions) without a ticket
    provider,         \* generateSummary's argument `provider`
    apiKey,           \* generateSummary's argument `apiKey`
    httpCalls,        \* number of fetch calls issued so far
    response,         \* what fetch gave the adapter
    outcome,          \* how the promise of generateSummary settled
    metrics,          \* a call of calculateComplexity and its result
    diffCall,         \* a call of formatDiffForPrompt and its result
    promptCall,       \* a call of buildPromptWithDiffs and its result
    selectedRepos,    \* settings store: selectedRepos
    storedKey,        \* settings store: apiKeys[llmProvider]
    testStatus,       \* LLMSettings: testStatus
    dashData,         \* DashboardPage: commits, jiraTickets, pullRequests, complexity
    loadingCommits,   \* DashboardPage: loadingCommits
    commitsError,     \* DashboardPage: commitsError is set
    summary,          \* DashboardPage: summary
    loadingSummary,   \* DashboardPage: loadingSummary
    summaryError,     \* DashboardPage: summaryError is set
    saveStatus,       \* DashboardPage: saveStatus
    inFlight,         \* requests of the browser not yet answered, in issue order
    timers,           \* pending setTimeout(() => setSaveStatus("idle"), 3000)
    sent,             \* what the browser has sent to the application's routes
    clicks,           \* user actions so far
    dateCall,         \* a call of getPreviousWorkingDay and its result
    rtCommits,        \* POST /api/commits: commits, as fetchCommitsForRepos gave them
    includeDiffs,     \* POST /api/commits: includeDiffs of the body
    diffFetches,      \* POST /api/commits: state of each commit's fetchCommitDiff
    routePc,          \* POST /api/commits: position of the handler
    routeResponse,    \* POST /api/commits: the response returned
    page,             \* fetchUserRepos: page
    repoMapSize,      \* fetchUserRepos: repoMap.size
    reposPc           \* fetchUserRepos: position in the /user/repos loop

jiraVars == <<lastIndex, call>>
groupVars == <<gpc, commits, flattenedCommits, ticketKeys,
               ticketCommits, untrackedCommits>>
llmVars == <<provider, apiKey, httpCalls, response, outcome>>
pureVars == <<metrics, diffCall, promptCall>>
dashVars == <<selectedRepos, storedKey, testStatus, dashData, loadingCommits,
              commitsError, summary, loadingSummary, summaryError, saveStatus,
              inFlight, timers, sent, clicks>>
routeVars == <<rtCommits, includeDiffs, diffFetches, routePc, routeResponse>>
repoVars == <<page, repoMapSize, reposPc>>
appVars == <<dashVars, dateCall, routeVars, repoVars>>
coreVars == <<jiraVars, groupVars, llmVars, pureVars>>
nonDashVars == <<coreVars, dateCall, routeVars, repoVars>>
nonDateVars == <<coreVars, dashVars, routeVars, repoVars>>
nonRouteVars == <<coreVars, dashVars, dateCall, repoVars>>
nonRepoVars == <<coreVars, dashVars, dateCall, routeVars>>
vars == <<lastIndex, call, gpc, commits, flattenedCommits, ticketKeys,
          ticketCommits, untrackedCommits, provider, apiKey, httpCalls,
          response, outcome, metrics, diffCall, promptCall, appVars>>

-----------------------------------------------------------------------------
(* Characters and strings *)

UpperLetters ==
    {"A","B","C","D","E","F","G","H","I","J","K","L","M",
     "N","O","P","Q","R","S","T","U","V","W","X","Y","Z"}

LowerLetters ==
    {"a","b","c","d","e","f","g","h","i","j","k","l","m",
     "n","o","p","q","r","s","t","u","v","w","x","y","z"}

Digits == {"0","1","2","3","4","5","6","7","8","9"}

CasePairs ==
    { <<"a","A">>, <<"b","B">>, <<"c","C">>, <<"d","D">>, <<"e","E">>,
      <<"f","F">>, <<"g","G">>, <<"h","H">>, <<"i","I">>, <<"j","J">>,
      <<"k","K">>, <<"l","L">>, <<"m","M">>, <<"n","N">>, <<"o","O">>,
      <<"p","P">>, <<"q","Q">>, <<"r","R">>, <<"s","S">>, <<"t","T">>,
      <<"u","U">>, <<"v","V">>, <<"w","W">>, <<"x","X">>, <<"y","Y">>,
      <<"z","Z">> }

\* String.prototype.toUpperCase on one character
ToUpperChar(c) ==
    IF c \in LowerLetters
    THEN (CHOOSE p \in CasePairs : p[1] = c)[2]
    ELSE c

\* String.prototype.toUpperCase
ToUpperCase(s) == [i \in 1..Len(s) |-> ToUpperChar(s[i])]

Undefined == <<"undefined">>

\* JavaScript truthiness of a string-or-undefined: `if (!text)`
Truthy(s) == s # Undefined /\ s # <<>>

Range(s) == { s[i] : i \in 1..Len(s) }

\* [...new Set(list)]: the distinct elements, each at its first position
RECURSIVE UniqueInOrder(_)
SetAdd(set, x) == IF x \in Range(set) THEN set ELSE Append(set, x)

UniqueInOrder(s) ==
    IF Len(s) = 0 THEN <<>>
    ELSE SetAdd(UniqueInOrder(SubSeq(s, 1, Len(s) - 1)), s[Len(s)])

-----------------------------------------------------------------------------
(* Regular expressions of jira.ts.  Positions are 1-based here; lastIndex  *)
(* keeps JavaScript's 0-based value, so a search at lastIndex li starts at *)
(* position li + 1.                                                        *)

\* [A-Z] and [A-Z0-9] and \d, with or without the i flag
IsLetter(c, ignoreCase) ==
    c \in UpperLetters \/ (ignoreCase /\ c \in LowerLetters)

IsAlnum(c, ignoreCase) == IsLetter(c, ignoreCase) \/ c \in Digits

\* End (exclusive) of the longest run of characters of a class from position p
RECURSIVE AlnumRunEnd(_, _, _)
AlnumRunEnd(text, p, ignoreCase) ==
    IF p <= Len(text) /\ IsAlnum(text[p], ignoreCase)
    THEN AlnumRunEnd(text, p + 1, ignoreCase)
    ELSE p

RECURSIVE DigitRunEnd(_, _)
DigitRunEnd(text, p) ==
    IF p <= Len(text) /\ text[p] \in Digits
    THEN DigitRunEnd(text, p + 1)
    ELSE p

\* [A-Z][A-Z0-9]+-\d+ tried at position p: the position after the match, or 0.
\* Both quantifiers are greedy, and giving characters back never helps: a
\* shorter [A-Z0-9]+ is followed by a character of the class, not by '-'.
\* -\d+ expected at position a: the position after it, or 0
HyphenDigitsEnd(text, a, d) ==
    IF a > Len(text) \/ text[a] # "-" \/ d = a + 1 THEN 0 ELSE d

\* [A-Z0-9]+ has run from p + 1 to before a
AfterAlnumRun(text, p, a) ==
    IF a = p + 1 THEN 0 ELSE HyphenDigitsEnd(text, a, DigitRunEnd(text, a + 1))

TicketEndAt(text, p, ignoreCase) ==
    IF p > Len(text) \/ ~IsLetter(text[p], ignoreCase) THEN 0
    ELSE AfterAlnumRun(text, p, AlnumRunEnd(text, p + 1, ignoreCase))

JiraEndAt_IgnoreCase(text, p) == TicketEndAt(text, p, TRUE)

\* JIRA_TICKET_REGEX = /[A-Z][A-Z0-9]+-\d+/g : no i flag
JiraEndAt(text, p) == TicketEndAt(text, p, FALSE)

\* RegExp.prototype.exec of the global JIRA_TICKET_REGEX from lastIndex li:
\* the leftmost match at or after li; it leaves lastIndex after the match, or
\* 0 when nothing matches.
RECURSIVE JiraSearchFrom(_, _)
JiraSearchFrom(text, p) ==
    IF p > Len(text) THEN 0
    ELSE IF JiraEndAt(text, p) # 0 THEN p
    ELSE JiraSearchFrom(text, p + 1)

\* The result of exec for a match from position s to before position e
\* (s = 0: no match)
ExecResult(text, s, e) ==
    IF s = 0
    THEN [found |-> FALSE, start |-> 0, match |-> <<>>, lastIndex |-> 0]
    ELSE [found |-> TRUE, start |-> s, match |-> SubSeq(text, s, e - 1),
          lastIndex |-> e - 1]

JiraExecAt(text, s) == ExecResult(text, s, JiraEndAt(text, s))

JiraExec(text, li) == JiraExecAt(text, JiraSearchFrom(text, li + 1))

\* String.prototype.match with a global regex: lastIndex is set to 0, exec
\* is repeated until it fails (which leaves lastIndex 0 again)
RECURSIVE JiraExecAll(_, _)
RECURSIVE JiraExecRest(_, _)
JiraExecRest(text, r) ==
    IF r.found THEN <<r.match>> \o JiraExecAll(text, r.lastIndex) ELSE <<>>

JiraExecAll(text, li) == JiraExecRest(text, JiraExec(text, li))

JiraMatchAll(text) == JiraExecAll(text, 0)

\* BRANCH_TICKET_REGEX = /(?:^|\/)?([A-Z][A-Z0-9]+-\d+)(?:-|\/|$)/i tried with
\* its group 1 at position p: the position after group 1, or 0.  \d+ is
\* greedy and a shorter \d+ is followed by a digit, so the tail is tested
\* after the longest run only.
BranchTail(text, e) ==
    IF e = 0 THEN 0
    ELSE IF e > Len(text) \/ text[e] = "-" \/ text[e] = "/" THEN e
    ELSE 0

BranchGroupEndAt(text, p) == BranchTail(text, TicketEndAt(text, p, TRUE))

\* The leading (?:^|\/)? is optional, so the leftmost match is the one whose
\* group 1 starts leftmost (a '/' before it is consumed, nothing else changes)
RECURSIVE BranchSearchFrom(_, _)
BranchSearchFrom(text, p) ==
    IF p > Len(text) THEN 0
    ELSE IF BranchGroupEndAt(text, p) # 0 THEN p
    ELSE BranchSearchFrom(text, p + 1)

\* branchName.match(BRANCH_TICKET_REGEX)[1], or the empty string for no match
BranchGroupAt(text, s) ==
    IF s = 0 THEN <<>> ELSE SubSeq(text, s, BranchGroupEndAt(text, s) - 1)

BranchMatchGroup(text) == BranchGroupAt(text, BranchSearchFrom(text, 1))

-----------------------------------------------------------------------------
(* Functions of jira.ts.  A ticket-or-null result is a string, the empty   *)
(* string standing for null (no ticket is empty).                          *)

NoTicket == <<>>

\* matches.map((t) => t.toUpperCase())
UpperCaseAll(matches) == [i \in 1..Len(matches) |-> ToUpperCase(matches[i])]

extractJiraTickets_NoDedupe(text) ==
    IF ~Truthy(text) THEN <<>> ELSE UpperCaseAll(JiraMatchAll(text))

extractJiraTickets(text) ==
    IF ~Truthy(text) THEN <<>>
    ELSE UniqueInOrder(UpperCaseAll(JiraMatchAll(text)))

\* tickets.length > 0 ? tickets[0] : null
FirstTicketOrNull(tickets) == IF Len(tickets) > 0 THEN tickets[1] ELSE NoTicket

\* extractTicketFromBranch once the branch regex has given branchMatch[1]
BranchTicketOr(branchName, branchMatch) ==
    IF branchMatch # <<>> THEN ToUpperCase(branchMatch)
    ELSE FirstTicketOrNull(extractJiraTickets(branchName))

extractTicketFromBranch(branchName) ==
    IF ~Truthy(branchName) THEN NoTicket
    ELSE BranchTicketOr(branchName, BranchMatchGroup(branchName))

\* DEFAULT_JIRA_BASE_URL, when the environment does not set it.  A URL is a
\* sequence of pieces of text; only a piece "/" at its end matters below.
DEFAULT_JIRA_BASE_URL == <<"https://jira.atlassian.net/browse">>

\* base.replace(/\/$/, "")
CleanBase(base) ==
    IF base[Len(base)] = "/" THEN SubSeq(base, 1, Len(base) - 1) ELSE base

getJiraUrl(ticketId, baseUrl) ==
    CleanBase(IF Truthy(baseUrl) THEN baseUrl ELSE DEFAULT_JIRA_BASE_URL)
      \o <<"/">> \o ticketId

\* ticketSet after `items.forEach((t) => ticketSet.add(t))`: a Set keeps
\* insertion order and ignores a value it already holds
SetAddAll(set, items) == UniqueInOrder(set \o items)

RECURSIVE MessagesTickets(_)
MessagesTickets(msgs) ==
    IF Len(msgs) = 0 THEN <<>>
    ELSE extractJiraTickets(msgs[1]) \o MessagesTickets(Tail(msgs))

\* `if (branchTicket) tickets.push(branchTicket)`: the list to add, which is
\* empty for null
PushIfTicket(ticket) == IF ticket # NoTicket THEN <<ticket>> ELSE <<>>

\* ticketSet after each of the three sources
AfterBranch(set, sources) ==
    IF Truthy(sources.branchName)
    THEN SetAddAll(SetAddAll(set, PushIfTicket(
                                    extractTicketFromBranch(sources.branchName))),
                   extractJiraTickets(sources.branchName))
    ELSE set

AfterTitle(set, sources) ==
    IF Truthy(sources.prTitle)
    THEN SetAddAll(set, extractJiraTickets(sources.prTitle))
    ELSE set

AfterMessages(set, sources) ==
    IF sources.commitMessages # Undefined
    THEN SetAddAll(set, MessagesTickets(sources.commitMessages))
    ELSE set

AllTicketIds_TitleFirst(sources) ==
    AfterMessages(AfterBranch(AfterTitle(<<>>, sources), sources), sources)

\* The ticket IDs of extractAllJiraTickets, in the order of its ticketSet
AllTicketIds(sources) ==
    AfterMessages(AfterTitle(AfterBranch(<<>>, sources), sources), sources)

WithUrls(ids, baseUrl) ==
    [i \in 1..Len(ids) |->
       [ticketId |-> ids[i], url |-> getJiraUrl(ids[i], baseUrl)]]

extractAllJiraTickets(sources, baseUrl) ==
    WithUrls(AllTicketIds(sources), baseUrl)

\* containsJiraTicket: its result and the lastIndex it leaves, entered with
\* lastIndex li
\* RegExp.prototype.test: whether exec matched, and the lastIndex exec left
TestResult(r) == [result |-> r.found, lastIndex |-> r.lastIndex]

containsJiraTicket_NoReset(text, li) ==
    IF ~Truthy(text) THEN [result |-> FALSE, lastIndex |-> li]
    ELSE TestResult(JiraExec(text, li))

containsJiraTicket(text, li) ==
    IF ~Truthy(text) THEN [result |-> FALSE, lastIndex |-> li]
    ELSE TestResult(JiraExec(text, 0))

\* lastIndex after extractJiraTickets: text.match(JIRA_TICKET_REGEX) runs
\* unless the text is falsy
LastIndexAfterExtract(text, li) == IF Truthy(text) THEN 0 ELSE li

\* lastIndex after extractTicketFromBranch: the branch regex is not global;
\* only the fallback touches JIRA_TICKET_REGEX
LastIndexAfterBranch(branchName, li) ==
    IF Truthy(branchName) /\ BranchMatchGroup(branchName) = <<>>
    THEN LastIndexAfterExtract(branchName, li)
    ELSE li

LastIndexAfterAll(sources, li) ==
    IF \/ Truthy(sources.branchName)
       \/ Truthy(sources.prTitle)
       \/ /\ sources.commitMessages # Undefined
          /\ \E i \in 1..Len(sources.commitMessages) :
                Truthy(sources.commitMessages[i])
    THEN 0 ELSE li

-----------------------------------------------------------------------------
(* Callers of jira.ts: any sequence of calls, each on any argument.        *)

MaxPrefix == 2
MaxSuffix == 1
MaxMessages == 2

\* An uppercase letter, a digit, the hyphen, a lowercase letter
NoiseChars == {"A", "9", "-", "x"}

NoiseUpTo(n) == UNION { [1..k -> NoiseChars] : k \in 0..n }

SC1319 == <<"S","C","-","1","3","1","9">>

Cores ==
    { <<>>,
      SC1319,
      <<"s","c","-","1","3","1","9">>,
      <<"f","/","A","b","-","1">>,
      <<"A","B","-","1"," ","A","B","-","1">>,
      <<"C","D","-","2"," ","A","B","-","1"," ","C","D","-","2">> }

Texts ==
    { p \o c \o s : p \in NoiseUpTo(MaxPrefix), c \in Cores,
                    s \in NoiseUpTo(MaxSuffix) }

TextArgs == Texts \cup {Undefined}

SourceBranches ==
    { Undefined, <<>>,
      <<"f","/","C","D","-","2","-","x">>,
      <<"A","B","-","1","x","/","c","d","-","2">>,
      <<"E","F","-","3","_","A","B","-","1">> }

SourceTitles ==
    { Undefined,
      <<"A","B","-","1"," ","t">>,
      <<"E","F","-","3"," ","C","D","-","2">> }

SourceMessage ==
    { <<"f","i","x">>,
      <<"C","D","-","2"," ","G","H","-","4">>,
      <<"G","H","-","4"," ","A","B","-","1">> }

SourceMessageLists ==
    {Undefined} \cup UNION { [1..k -> SourceMessage] : k \in 0..MaxMessages }

SourceBundles ==
    [branchName : SourceBranches, prTitle : SourceTitles,
     commitMessages : SourceMessageLists]

BaseUrls == { Undefined, <<"j">>, <<"j", "/">> }

NoSources ==
    [branchName |-> Undefined, prTitle |-> Undefined,
     commitMessages |-> Undefined]

Idle ==
    [op |-> "idle", text |-> <<>>, sources |-> NoSources, baseUrl |-> Undefined,
     entry |-> 0, tickets |-> <<>>, ticket |-> NoTicket, found |-> FALSE,
     links |-> <<>>]

InitGroupIdle ==
    /\ gpc = "idle"
    /\ commits = <<>>
    /\ flattenedCommits = <<>>
    /\ ticketKeys = <<>>
    /\ ticketCommits = <<>>
    /\ untrackedCommits = <<>>

InitLLMIdle ==
    /\ provider = "none"
    /\ apiKey = <<>>
    /\ httpCalls = 0
    /\ response = "none"
    /\ outcome = "none"

InitPureIdle ==
    /\ metrics = "none"
    /\ diffCall = "none"
    /\ promptCall = "none"

NoData == [repos |-> <<>>, count |-> 0]

InitDashIdle ==
    /\ selectedRepos = <<>>
    /\ storedKey = <<>>
    /\ testStatus = "idle"
    /\ dashData = NoData
    /\ loadingCommits = FALSE
    /\ commitsError = FALSE
    /\ summary = "null"
    /\ loadingSummary = FALSE
    /\ summaryError = FALSE
    /\ saveStatus = "idle"
    /\ inFlight = <<>>
    /\ timers = 0
    /\ sent = {}
    /\ clicks = 0

NoRouteResponse ==
    [status |-> 0, commits |-> <<>>,
     grouped |-> [ticketGroups |-> <<>>, orphanCommits |-> <<>>]]

InitRouteIdle ==
    /\ rtCommits = <<>>
    /\ includeDiffs = TRUE
    /\ diffFetches = <<>>
    /\ routePc = "idle"
    /\ routeResponse = NoRouteResponse

InitReposIdle ==
    /\ page = 1
    /\ repoMapSize = 0
    /\ reposPc = "idle"

InitAppIdle ==
    /\ InitDashIdle
    /\ dateCall = "none"
    /\ InitRouteIdle
    /\ InitReposIdle

InitJira ==
    /\ lastIndex = 0
    /\ call = Idle
    /\ InitGroupIdle
    /\ InitLLMIdle
    /\ InitAppIdle
    /\ InitPureIdle

CallExtractJiraTickets ==
    /\ call.op = "idle"
    /\ \E t \in TextArgs :
         /\ call' = [Idle EXCEPT !.op = "extractJiraTickets", !.text = t,
                                 !.entry = lastIndex,
                                 !.tickets = extractJiraTickets(t)]
         /\ lastIndex' = LastIndexAfterExtract(t, lastIndex)
    /\ UNCHANGED <<groupVars, llmVars, pureVars, appVars>>

CallExtractTicketFromBranch ==
    /\ call.op = "idle"
    /\ \E t \in TextArgs :
         /\ call' = [Idle EXCEPT !.op = "extractTicketFromBranch", !.text = t,
                                 !.entry = lastIndex,
                                 !.ticket = extractTicketFromBranch(t)]
         /\ lastIndex' = LastIndexAfterBranch(t, lastIndex)
    /\ UNCHANGED <<groupVars, llmVars, pureVars, appVars>>

CallContainsJiraTicket ==
    /\ call.op = "idle"
    /\ \E t \in TextArgs :
         \E r \in {containsJiraTicket(t, lastIndex)} :
            /\ call' = [Idle EXCEPT !.op = "containsJiraTicket", !.text = t,
                                    !.entry = lastIndex, !.found = r.result]
            /\ lastIndex' = r.lastIndex
    /\ UNCHANGED <<groupVars, llmVars, pureVars, appVars>>

CallExtractAllJiraTickets ==
    /\ call.op = "idle"
    /\ \E src \in SourceBundles, base \in BaseUrls :
         /\ call' = [Idle EXCEPT !.op = "extractAllJiraTickets",
                                 !.sources = src, !.baseUrl = base,
                                 !.entry = lastIndex,
                                 !.links = extractAllJiraTickets(src, base)]
         /\ lastIndex' = LastIndexAfterAll(src, lastIndex)
    /\ UNCHANGED <<groupVars, llmVars, pureVars, appVars>>

\* The caller takes the result; lastIndex stays with the module
Return ==
    /\ call.op # "idle"
    /\ call' = Idle
    /\ UNCHANGED lastIndex
    /\ UNCHANGED <<groupVars, llmVars, pureVars, appVars>>

NextJira ==
    \/ CallExtractJiraTickets
    \/ CallExtractTicketFromBranch
    \/ CallContainsJiraTicket
    \/ CallExtractAllJiraTickets
    \/ Return

SpecJira == InitJira /\ [][NextJira]_vars

-----------------------------------------------------------------------------
(* Properties of ticket extraction *)

NoDuplicates(s) == \A i, j \in 1..Len(s) : s[i] = s[j] => i = j

FirstIndex(s, x) == CHOOSE i \in 1..Len(s) : s[i] = x /\ \A j \in 1..(i - 1) : s[j] # x

\* sub occurs in text at position p
OccursAt(text, sub, p) ==
    /\ p >= 1
    /\ p + Len(sub) - 1 <= Len(text)
    /\ SubSeq(text, p, p + Len(sub) - 1) = sub

\* text[s..e] reads as letter, letters/digits, hyphen, digits, stated on the
\* characters themselves (upper case only unless anyCase)
ReadsAsTicket(text, s, e, anyCase) ==
    /\ 1 <= s /\ e <= Len(text)
    /\ \E h \in (s + 2)..(e - 1) :
         /\ text[h] = "-"
         /\ text[s] \in UpperLetters \cup (IF anyCase THEN LowerLetters ELSE {})
         /\ \A k \in (s + 1)..(h - 1) :
               text[k] \in UpperLetters \cup Digits
                           \cup (IF anyCase THEN LowerLetters ELSE {})
         /\ \A k \in (h + 1)..e : text[k] \in Digits

HasTicketLike(text, anyCase) ==
    \E s \in 1..Len(text), e \in 1..Len(text) : ReadsAsTicket(text, s, e, anyCase)

\* C6: extractJiraTickets returns every identifier the pattern matched in the
\* text, uppercased, each exactly once and in the order of its first match;
\* every identifier returned reads as a ticket in the text; a text with no
\* ticket-like substring (in either case) gives the empty list.
C6_ExtractUniqueInOrder ==
    call.op = "extractJiraTickets" =>
      LET text == call.text
          r == call.tickets
          m == IF Truthy(text) THEN JiraMatchAll(text) ELSE <<>>
          upper == [i \in 1..Len(m) |-> ToUpperCase(m[i])]
      IN /\ NoDuplicates(r)
         /\ Range(r) = Range(upper)
         /\ \A i, j \in 1..Len(r) :
               i < j => FirstIndex(upper, r[i]) < FirstIndex(upper, r[j])
         /\ \A i \in 1..Len(r) :
               /\ \A k \in 1..Len(r[i]) : r[i][k] \notin LowerLetters
               /\ \E s \in 1..Len(text) :
                     /\ OccursAt(text, r[i], s)
                     /\ ReadsAsTicket(text, s, s + Len(r[i]) - 1, FALSE)
         /\ (text = Undefined \/ ~HasTicketLike(text, TRUE)) => r = <<>>

C6_Witness ==
    /\ call.op = "extractJiraTickets"
    /\ Len(JiraMatchAll(call.text)) = 3
    /\ Len(call.tickets) = 2
    /\ call.tickets[1] = <<"C","D","-","2">>

C6_WitnessEmpty ==
    /\ call.op = "extractJiraTickets"
    /\ Len(call.text) >= 2
    /\ call.text # Undefined
    /\ ~HasTicketLike(call.text, TRUE)

\* The occurrence of SC-1319 at position p stands free: no digit follows it,
\* and the letters and digits that run up to it hold no uppercase letter
\* (such a run would start a longer identifier).
StandsFree(text, p) ==
    /\ OccursAt(text, SC1319, p)
    /\ ~(p + 7 <= Len(text) /\ text[p + 7] \in Digits)
    /\ \A q \in 1..(p - 1) :
         (\A k \in q..(p - 1) : text[k] \in UpperLetters \cup Digits)
            => text[q] \notin UpperLetters

\* C7 as claimed: whatever surrounds an occurrence of SC-1319, the result
\* holds the identifier SC-1319.
C7_AnySurroundings ==
    (/\ call.op = "extractJiraTickets"
     /\ call.text # Undefined
     /\ \E p \in 1..Len(call.text) : OccursAt(call.text, SC1319, p))
      => SC1319 \in Range(call.tickets)

\* C7 amended: the result holds SC-1319 exactly when some occurrence of it in
\* the text stands free; an occurrence that follows an uppercase letter through
\* letters and digits, or is followed by a digit, is read as a longer identifier.
C7_FreeStanding ==
    (call.op = "extractJiraTickets" /\ call.text # Undefined) =>
      (SC1319 \in Range(call.tickets)
         <=> \E p \in 1..Len(call.text) : StandsFree(call.text, p))

C7_Witness ==
    /\ call.op = "extractJiraTickets"
    /\ call.text # Undefined
    /\ Len(call.text) = 10
    /\ StandsFree(call.text, 3)
    /\ call.text[1] \in UpperLetters
    /\ call.tickets = <<SC1319>>

\* C8 as claimed: a text that is one ticket written in lower or mixed case is
\* found by extractJiraTickets, which returns it in upper case, and by
\* containsJiraTicket.
C8_CaseInsensitive ==
    (/\ call.op \in {"extractJiraTickets", "containsJiraTicket"}
     /\ call.text # Undefined
     /\ ReadsAsTicket(call.text, 1, Len(call.text), TRUE))
      => /\ call.op = "extractJiraTickets"
              => call.tickets = <<ToUpperCase(call.text)>>
         /\ call.op = "containsJiraTicket" => call.found

\* C9: whatever calls came before, a call returns what the first call of the
\* module (lastIndex 0) returns on the same argument.
C9_NoStateBetweenCalls ==
    /\ call.op = "containsJiraTicket"
          => call.found = containsJiraTicket(call.text, 0).result
    /\ call.op = "extractJiraTickets"
          => call.tickets = extractJiraTickets(call.text)
    /\ call.op = "extractTicketFromBranch"
          => call.ticket = extractTicketFromBranch(call.text)
    /\ call.op = "extractAllJiraTickets"
          => call.links = extractAllJiraTickets(call.sources, call.baseUrl)

\* A probe entered with a stale lastIndex that lies past the text's only match
C9_Witness ==
    /\ call.op = "containsJiraTicket"
    /\ call.entry > 0
    /\ call.found
    /\ ~JiraExec(call.text, call.entry).found

\* The sources of a bundle in priority order: the branch name's anchored
\* match, the branch name's general matches, the PR title's, each message's
PriorityList(sources) ==
    LET b == sources.branchName
        anchored == IF Truthy(b) /\ extractTicketFromBranch(b) # NoTicket
                    THEN <<extractTicketFromBranch(b)>> ELSE <<>>
        msgs == IF sources.commitMessages = Undefined THEN <<>>
                ELSE sources.commitMessages
    IN anchored \o extractJiraTickets(b) \o extractJiraTickets(sources.prTitle)
         \o MessagesTickets(msgs)

\* C10: extractAllJiraTickets returns distinct IDs, all those of its sources,
\* each at the place of the first source (in priority order) that found it.
C10_PriorityOrder ==
    call.op = "extractAllJiraTickets" =>
      LET ids == [i \in 1..Len(call.links) |-> call.links[i].ticketId]
          prio == PriorityList(call.sources)
      IN /\ NoDuplicates(ids)
         /\ Range(ids) = Range(prio)
         /\ \A i, j \in 1..Len(ids) :
               i < j => FirstIndex(prio, ids[i]) < FirstIndex(prio, ids[j])

\* The anchored match is not the branch's first general match, the title
\* repeats a branch ticket and a message repeats a title ticket
C10_Witness ==
    /\ call.op = "extractAllJiraTickets"
    /\ Len(call.links) = 4
    /\ call.sources.branchName = <<"E","F","-","3","_","A","B","-","1">>
    /\ call.sources.prTitle = <<"E","F","-","3"," ","C","D","-","2">>
    /\ call.sources.commitMessages # Undefined
    /\ Len(call.sources.commitMessages) = 1
    /\ call.links[1].ticketId = <<"A","B","-","1">>
    /\ call.links[4].ticketId = <<"G","H","-","4">>

-----------------------------------------------------------------------------
(* generateSummary and buildPromptFromCommits (lib/utils.ts).              *)
(*                                                                         *)
(* A commit of the argument is in one of two shapes.  "flat" is the        *)
(* FlattenedCommit of the front end: message, branchName and               *)
(* pullRequest.headBranch at the top level.  "nested" is CommitWithDetails: *)
(* commit.message, branchName and pullRequest.head.ref.  In both, `head`   *)
(* is the head branch of the commit's pull request, Undefined without one. *)
(* A commit is known by its place in the list (its sha); the lists of the   *)
(* grouping hold places.                                                    *)

\* The callback of commits.map in generateSummary.  A nested commit is
\* rebuilt field by field, and pullRequest is not among the fields copied; a
\* commit without "commit", or with an empty commit.message, is returned as
\* it is and read as a FlattenedCommit: a nested one then has no `message`
\* and no `pullRequest.headBranch`.
FlattenCommit(c) ==
    IF c.shape = "nested" /\ Truthy(c.message)
    THEN [message |-> c.message, branchName |-> c.branchName,
          headBranch |-> Undefined]
    ELSE IF c.shape = "nested"
    THEN [message |-> Undefined, branchName |-> c.branchName,
          headBranch |-> Undefined]
    ELSE [message |-> c.message, branchName |-> c.branchName,
          headBranch |-> c.head]

\* `tickets` of one commit in the forEach of buildPromptFromCommits, before
\* the Set removes repetitions
\* (extractTicketFromBranch gives null for a missing or empty name, which
\* is what the `if (c.branchName)` and `if (c.pullRequest?.headBranch)` skip)
CommitTicketsRaw(c) ==
    PushIfTicket(extractTicketFromBranch(c.branchName))
      \o PushIfTicket(extractTicketFromBranch(c.headBranch))
      \o extractJiraTickets(c.message)

CommitTickets_NoDedupe(c) == CommitTicketsRaw(c)

FirstOnly(t) == IF Len(t) > 1 THEN <<t[1]>> ELSE t

CommitTickets_FirstOnly(c) == FirstOnly(UniqueInOrder(CommitTicketsRaw(c)))

CommitTickets_MessageOnly(c) == extractJiraTickets(c.message)

\* tickets = [...new Set([...tickets, ...messageTickets])]
CommitTickets(c) == UniqueInOrder(CommitTicketsRaw(c))

\* ticketCommits is a plain object: a key that is not an array index (no
\* ticket is: each holds a letter and a hyphen) is enumerated in the order
\* it was first assigned.
NoGroups == [keys |-> <<>>, lists |-> <<>>, untracked |-> <<>>]

PushToTicket_Unshift(g, ticket, i) ==
    IF ticket \in Range(g.keys)
    THEN [g EXCEPT !.lists = [k \in DOMAIN g.lists |->
                                IF k = ticket THEN <<i>> \o g.lists[k]
                                ELSE g.lists[k]]]
    ELSE [g EXCEPT !.keys = <<ticket>> \o g.keys,
                   !.lists = [k \in DOMAIN g.lists \cup {ticket} |->
                                IF k = ticket THEN <<i>> ELSE g.lists[k]]]

\* if (!ticketCommits[ticket]) ticketCommits[ticket] = []; then push(c)
PushToTicket(g, ticket, i) ==
    IF ticket \in Range(g.keys)
    THEN [g EXCEPT !.lists = [k \in DOMAIN g.lists |->
                                IF k = ticket THEN Append(g.lists[k], i)
                                ELSE g.lists[k]]]
    ELSE [g EXCEPT !.keys = Append(g.keys, ticket),
                   !.lists = [k \in DOMAIN g.lists \cup {ticket} |->
                                IF k = ticket THEN <<i>> ELSE g.lists[k]]]

RECURSIVE PushToTickets(_, _, _)
PushToTickets(g, tickets, i) ==
    IF Len(tickets) = 0 THEN g
    ELSE PushToTickets(PushToTicket(g, tickets[1], i), Tail(tickets), i)

\* One turn of commits.forEach for the commit at place i
PushOrUntracked(g, tickets, i) ==
    IF Len(tickets) > 0
    THEN PushToTickets(g, tickets, i)
    ELSE [g EXCEPT !.untracked = Append(g.untracked, i)]

GroupCommit(g, c, i) == PushOrUntracked(g, CommitTickets(c), i)

\* ticketCommits and untrackedCommits after the first n commits
RECURSIVE GroupCommits(_, _)
GroupCommits(flat, n) ==
    IF n = 0 THEN NoGroups
    ELSE GroupCommit(GroupCommits(flat, n - 1), flat[n], n)

MaxCommits == 2

CommitMessages ==
    { <<>>,
      <<"f","i","x">>,
      <<"A","B","C","-","1","2"," ","x">>,
      <<"C","D","-","2"," ","A","B","C","-","1","2">> }

FeatureABC12Fix ==
    <<"f","e","a","t","u","r","e","/","A","B","C","-","1","2","-","f","i","x">>

CommitBranches ==
    { Undefined, FeatureABC12Fix, <<"f","i","x","/","c","d","-","2">> }

CommitHeads == { Undefined, FeatureABC12Fix }

CommitShapes == { "flat", "nested" }

Commits ==
    [shape : CommitShapes, message : CommitMessages,
     branchName : CommitBranches, head : CommitHeads]

InitGroup ==
    /\ lastIndex = 0
    /\ call = Idle
    /\ gpc = "called"
    /\ \E n \in 0..MaxCommits : commits \in [1..n -> Commits]
    /\ flattenedCommits = <<>>
    /\ ticketKeys = <<>>
    /\ ticketCommits = <<>>
    /\ untrackedCommits = <<>>
    /\ InitLLMIdle
    /\ InitAppIdle
    /\ InitPureIdle

\* if (commits.length === 0) return { summary: "No commits found ...", ... }
ReturnNoCommits ==
    /\ gpc = "called"
    /\ Len(commits) = 0
    /\ gpc' = "returned"
    /\ UNCHANGED <<commits, flattenedCommits, ticketKeys, ticketCommits,
                   untrackedCommits>>
    /\ UNCHANGED <<jiraVars, llmVars, pureVars, appVars>>

\* generateSummary with a credential, some commits and no ticketGroups: the
\* commits are flattened and buildPromptFromCommits groups them, then renders
\* each with formatCommit, where c.message.split throws on a commit without
\* a message.  Every extractJiraTickets of the grouping leaves lastIndex 0.
BuildPromptFromCommits ==
    /\ gpc = "called"
    /\ Len(commits) > 0
    /\ flattenedCommits' = [i \in 1..Len(commits) |-> FlattenCommit(commits[i])]
    /\ \E g \in {GroupCommits(flattenedCommits', Len(commits))} :
          /\ ticketKeys' = g.keys
          /\ ticketCommits' = g.lists
          /\ untrackedCommits' = g.untracked
    /\ gpc' = IF \E i \in 1..Len(commits) :
                    flattenedCommits'[i].message = Undefined
              THEN "threw" ELSE "prompted"
    /\ lastIndex' = 0
    /\ UNCHANGED <<commits, call, llmVars, pureVars, appVars>>

NextGroup ==
    \/ ReturnNoCommits
    \/ BuildPromptFromCommits

SpecGroup == InitGroup /\ [][NextGroup]_vars

-----------------------------------------------------------------------------
(* Properties of the grouping, once buildPromptFromCommits has grouped.    *)

Grouped == gpc \in {"prompted", "threw"}

ABC12 == <<"A","B","C","-","1","2">>

\* Commit i is in the list of ticket t's group
InGroup(i, t) == t \in Range(ticketKeys) /\ i \in Range(ticketCommits[t])

GroupsOf(i) == { t \in Range(ticketKeys) : i \in Range(ticketCommits[t]) }

TimesIn(list, i) == Cardinality({ k \in 1..Len(list) : list[k] = i })

\* The tickets of every message and of every branch name of the inputs,
\* tabulated once
TicketsOfMessage ==
    [m \in CommitMessages \cup {Undefined} |-> extractJiraTickets(m)]

TicketOfBranch ==
    [b \in CommitBranches \cup CommitHeads |-> extractTicketFromBranch(b)]

\* The tickets found in a commit of the grouper's input, source by source
MessageTicketsOf(c) == Range(TicketsOfMessage[c.message])

BranchTicketsOf(c) == {TicketOfBranch[c.branchName]} \ {NoTicket}

HeadTicketsOf(c) == {TicketOfBranch[c.headBranch]} \ {NoTicket}

TicketsFound(c) == MessageTicketsOf(c) \cup BranchTicketsOf(c) \cup HeadTicketsOf(c)

\* C1: a commit with one ticket in its message and another in its branch
\* name is a member of both tickets' groups.
C1_FanOut ==
    Grouped =>
      \A i \in 1..Len(flattenedCommits) :
        \A a \in MessageTicketsOf(flattenedCommits[i]),
           b \in BranchTicketsOf(flattenedCommits[i]) :
             a # b => InGroup(i, a) /\ InGroup(i, b)

C1_Witness ==
    /\ Grouped
    /\ Len(flattenedCommits) = 2
    /\ MessageTicketsOf(flattenedCommits[2]) = {ABC12}
    /\ BranchTicketsOf(flattenedCommits[2]) = {<<"C","D","-","2">>}
    /\ GroupsOf(2) = {ABC12, <<"C","D","-","2">>}

\* C2: no group lists a commit twice and no ticket has two groups; a commit
\* whose message names ABC-12 and no other ticket, on branch
\* feature/ABC-12-fix (its PR head, if any, naming no other ticket), is in
\* the group ABC-12 only, once.
C2_NoDuplicates ==
    Grouped =>
      /\ NoDuplicates(ticketKeys)
      /\ \A t \in Range(ticketKeys) : NoDuplicates(ticketCommits[t])
      /\ \A i \in 1..Len(flattenedCommits) :
           (/\ MessageTicketsOf(flattenedCommits[i]) = {ABC12}
            /\ flattenedCommits[i].branchName = FeatureABC12Fix
            /\ HeadTicketsOf(flattenedCommits[i]) \subseteq {ABC12})
             => /\ GroupsOf(i) = {ABC12}
                /\ TimesIn(ticketCommits[ABC12], i) = 1

\* The ticket comes from the message, the branch and the PR head branch
C2_Witness ==
    /\ Grouped
    /\ Len(flattenedCommits) = 2
    /\ \A i \in 1..2 :
         /\ MessageTicketsOf(flattenedCommits[i]) = {ABC12}
         /\ flattenedCommits[i].branchName = FeatureABC12Fix
         /\ HeadTicketsOf(flattenedCommits[i]) = {ABC12}
    /\ ticketKeys = <<ABC12>>
    /\ ticketCommits[ABC12] = <<1, 2>>

\* C3: every commit of the grouper's input is in the untracked list or in a
\* group, never both, and it is untracked exactly when no ticket is found
\* in its message, its branch name or its PR head branch.
C3_OrphansExclusive ==
    Grouped =>
      /\ NoDuplicates(untrackedCommits)
      /\ Range(untrackedCommits) \subseteq 1..Len(flattenedCommits)
      /\ \A t \in Range(ticketKeys) :
            Range(ticketCommits[t]) \subseteq 1..Len(flattenedCommits)
      /\ \A i \in 1..Len(flattenedCommits) :
           /\ (i \in Range(untrackedCommits)) <=> (GroupsOf(i) = {})
           /\ (i \in Range(untrackedCommits))
                 <=> (TicketsFound(flattenedCommits[i]) = {})

C3_Witness ==
    /\ Grouped
    /\ Len(flattenedCommits) = 2
    /\ untrackedCommits = <<1>>
    /\ flattenedCommits[1].message = <<"f","i","x">>
    /\ TicketsFound(flattenedCommits[2]) = HeadTicketsOf(flattenedCommits[2])
    /\ GroupsOf(2) = {ABC12}

\* Where the scan of the input first meets ticket t: the commit, and the
\* place inside the commit (branch name, then PR head branch, then the
\* message's tickets in their order)
FirstCommitWith(t) ==
    CHOOSE i \in 1..Len(flattenedCommits) :
       /\ t \in TicketsFound(flattenedCommits[i])
       /\ \A j \in 1..(i - 1) : t \notin TicketsFound(flattenedCommits[j])

PlaceIn(c, t) ==
    IF t \in BranchTicketsOf(c) THEN 1
    ELSE IF t \in HeadTicketsOf(c) THEN 2
    ELSE 2 + FirstIndex(TicketsOfMessage[c.message], t)

MetBefore(a, b) ==
    \/ FirstCommitWith(a) < FirstCommitWith(b)
    \/ /\ FirstCommitWith(a) = FirstCommitWith(b)
       /\ PlaceIn(flattenedCommits[FirstCommitWith(a)], a)
            < PlaceIn(flattenedCommits[FirstCommitWith(b)], b)

\* C4: the groups come in the order in which the scan first meets their
\* tickets, and the commits of a group in input order.
C4_FirstSeenOrder ==
    Grouped =>
      /\ \A x, y \in 1..Len(ticketKeys) :
            x < y => MetBefore(ticketKeys[x], ticketKeys[y])
      /\ \A t \in Range(ticketKeys) :
            \A x, y \in 1..Len(ticketCommits[t]) :
               x < y => ticketCommits[t][x] < ticketCommits[t][y]

\* Two groups in an order that is not alphabetical, the first with two
\* commits
C4_Witness ==
    /\ Grouped
    /\ ticketKeys = << <<"C","D","-","2">>, ABC12 >>
    /\ ticketCommits[<<"C","D","-","2">>] = <<1, 2>>
    /\ ticketCommits[ABC12] = <<2>>

\* C5 as claimed: when generateSummary has built its prompt, a commit of
\* its argument, in either shape, whose pull request's head branch names a
\* ticket is in that ticket's group.
C5_HeadBranchGroups ==
    gpc = "prompted" =>
      \A i \in 1..Len(commits) :
         TicketOfBranch[commits[i].head] # NoTicket
            => InGroup(i, TicketOfBranch[commits[i].head])

-----------------------------------------------------------------------------
(* JSON.parse and the values it gives (used by the adapters of lib/utils.ts *)
(* on the model's text and by Response.json on a response body).           *)
(*                                                                         *)
(* A JavaScript value is a record [kind, str]: for a string, str is its    *)
(* text; for a number, array, object or literal, str is its JSON source    *)
(* text.  The grammar is JSON's without string escapes, fractions and      *)
(* exponents: a text that uses one is rejected, and no text of the model   *)
(* does.                                                                   *)

WhiteSpace == {" ", "\n", "\t", "\r"}

\* First place from i on that holds no white space (Len(s) + 1 if none)
RECURSIVE SkipWs(_, _)
SkipWs(s, i) ==
    IF i <= Len(s) /\ s[i] \in WhiteSpace THEN SkipWs(s, i + 1) ELSE i

CharAt(s, i) == IF i >= 1 /\ i <= Len(s) THEN s[i] ELSE "EOF"

\* s[i] is the opening quote: the place after the closing quote, 0 if the
\* string does not close
RECURSIVE StringBodyEnd(_, _)
StringBodyEnd(s, i) ==
    IF i > Len(s) THEN 0
    ELSE IF s[i] = "\"" THEN i + 1
    ELSE IF s[i] \in {"\\", "\n", "\t", "\r"} THEN 0
    ELSE StringBodyEnd(s, i + 1)

StringEnd(s, i) == StringBodyEnd(s, i + 1)

\* -? (0 | [1-9][0-9]*)
NumberDigitsEnd(s, i) ==
    IF CharAt(s, i) = "0" THEN i + 1
    ELSE IF CharAt(s, i) \in Digits THEN DigitRunEnd(s, i)
    ELSE 0

NumberEnd(s, i) ==
    IF CharAt(s, i) = "-" THEN NumberDigitsEnd(s, i + 1)
    ELSE NumberDigitsEnd(s, i)

StartsWithAt(s, i, w) ==
    /\ i + Len(w) - 1 <= Len(s)
    /\ \A k \in 1..Len(w) : s[i + k - 1] = w[k]

LiteralEnd(s, i, w) == IF StartsWithAt(s, i, w) THEN i + Len(w) ELSE 0

RECURSIVE ValueEnd(_, _)
RECURSIVE ElementsEnd(_, _)
RECURSIVE MembersEnd(_, _)

\* after an element that ended before place k (white space skipped)
AfterElement(s, k) ==
    IF CharAt(s, k) = "," THEN ElementsEnd(s, SkipWs(s, k + 1))
    ELSE IF CharAt(s, k) = "]" THEN k + 1
    ELSE 0

ElementEndThen(s, e) == IF e = 0 THEN 0 ELSE AfterElement(s, SkipWs(s, e))

ElementsEnd(s, i) == ElementEndThen(s, ValueEnd(s, i))

ArrayBodyEnd(s, j) ==
    IF CharAt(s, j) = "]" THEN j + 1 ELSE ElementsEnd(s, j)

AfterMember(s, k) ==
    IF CharAt(s, k) = "," THEN MembersEnd(s, SkipWs(s, k + 1))
    ELSE IF CharAt(s, k) = "}" THEN k + 1
    ELSE 0

MemberValueEndThen(s, e) == IF e = 0 THEN 0 ELSE AfterMember(s, SkipWs(s, e))

AfterKey(s, k) ==
    IF CharAt(s, k) = ":"
    THEN MemberValueEndThen(s, ValueEnd(s, SkipWs(s, k + 1)))
    ELSE 0

KeyEndThen(s, e) == IF e = 0 THEN 0 ELSE AfterKey(s, SkipWs(s, e))

MembersEnd(s, i) ==
    IF CharAt(s, i) = "\"" THEN KeyEndThen(s, StringEnd(s, i)) ELSE 0

ObjectBodyEnd(s, j) ==
    IF CharAt(s, j) = "}" THEN j + 1 ELSE MembersEnd(s, j)

\* The place after the JSON value that starts at place i, 0 if none does
ValueEnd(s, i) ==
    CASE CharAt(s, i) = "\"" -> StringEnd(s, i)
      [] CharAt(s, i) = "[" -> ArrayBodyEnd(s, SkipWs(s, i + 1))
      [] CharAt(s, i) = "{" -> ObjectBodyEnd(s, SkipWs(s, i + 1))
      [] CharAt(s, i) = "n" -> LiteralEnd(s, i, <<"n","u","l","l">>)
      [] CharAt(s, i) = "t" -> LiteralEnd(s, i, <<"t","r","u","e">>)
      [] CharAt(s, i) = "f" -> LiteralEnd(s, i, <<"f","a","l","s","e">>)
      [] OTHER -> NumberEnd(s, i)

KindOfFirst(c) ==
    CASE c = "\"" -> "string"
      [] c = "[" -> "array"
      [] c = "{" -> "object"
      [] c = "n" -> "null"
      [] c = "t" -> "true"
      [] c = "f" -> "false"
      [] OTHER -> "number"

JsUndefined == [kind |-> "undefined", str |-> <<>>]

JsString(text) == [kind |-> "string", str |-> text]

EmptyArray == [kind |-> "array", str |-> <<"[", "]">>]

\* The value whose JSON text is s[i..e-1]
ValueAt(s, i, e) ==
    IF s[i] = "\"" THEN JsString(SubSeq(s, i + 1, e - 2))
    ELSE [kind |-> KindOfFirst(s[i]), str |-> SubSeq(s, i, e - 1)]

NoParse == [ok |-> FALSE, value |-> JsUndefined]

ParseFromTo(s, i, e) ==
    IF e # 0 /\ SkipWs(s, e) = Len(s) + 1
    THEN [ok |-> TRUE, value |-> ValueAt(s, i, e)]
    ELSE NoParse

ParseFrom(s, i) == ParseFromTo(s, i, ValueEnd(s, i))

\* JSON.parse(text): ok is FALSE where it throws a SyntaxError.
\* JSON.parse(undefined) reads the text "undefined" and throws.
JSONParse(text) ==
    IF text = Undefined THEN NoParse ELSE ParseFrom(text, SkipWs(text, 1))

\* The members of the object whose text is s, from place i (a key's opening
\* quote, or the closing brace) on: <<key, value>> pairs in source order
RECURSIVE MembersFrom(_, _)

MemberThen(s, i, ke, vs, ve) ==
    <<[key |-> SubSeq(s, i + 1, ke - 2), value |-> ValueAt(s, vs, ve)]>>
      \o (IF CharAt(s, SkipWs(s, ve)) = ","
          THEN MembersFrom(s, SkipWs(s, SkipWs(s, ve) + 1))
          ELSE <<>>)

MemberValueAt(s, i, ke, vs) == MemberThen(s, i, ke, vs, ValueEnd(s, vs))

MemberKeyThen(s, i, ke) == MemberValueAt(s, i, ke, SkipWs(s, SkipWs(s, ke) + 1))

MembersFrom(s, i) ==
    IF CharAt(s, i) = "\"" THEN MemberKeyThen(s, i, StringEnd(s, i)) ELSE <<>>

MembersOf(v) == MembersFrom(v.str, SkipWs(v.str, 2))

\* JSON.parse keeps the last of the members that share a key
RECURSIVE LookUp(_, _, _)
LookUp(members, key, n) ==
    IF n = 0 THEN JsUndefined
    ELSE IF members[n].key = key THEN members[n].value
    ELSE LookUp(members, key, n - 1)

LookUpIn(members, key) == LookUp(members, key, Len(members))

\* v.key, for a v that is neither null nor undefined (reading a property of
\* those throws a TypeError)
Get(v, key) ==
    IF v.kind = "object" THEN LookUpIn(MembersOf(v), key) ELSE JsUndefined

Nullish(v) == v.kind \in {"undefined", "null"}

\* ToBoolean
JsTruthy(v) ==
    CASE v.kind \in {"undefined", "null", "false"} -> FALSE
      [] v.kind = "string" -> Len(v.str) > 0
      [] v.kind = "number" -> v.str \notin {<<"0">>, <<"-", "0">>}
      [] OTHER -> TRUE

\* a || b
Or(a, b) == IF JsTruthy(a) THEN a ELSE b

\* Array.isArray(a) ? a : []
ArrayOrEmpty(a) == IF a.kind = "array" THEN a ELSE EmptyArray

-----------------------------------------------------------------------------
(* The vendor adapters callOpenAI, callAnthropic and callGoogle            *)
(* (lib/utils.ts), from the response of fetch on.                          *)
(*                                                                         *)
(* A string literal of the program is a one-element sequence holding the   *)
(* literal, a template literal the sequence of its parts; no text among    *)
(* the model's inputs spells one of them.                                  *)
(*                                                                         *)
(* A response is [net, ok, body, content]: net is FALSE when fetch itself  *)
(* rejects; ok is response.ok; body is the text of an error response;      *)
(* content is the generated text the adapter reads out of the envelope of  *)
(* a 2xx response by optional chaining (data.choices[0]?.message?.content, *)
(* data.content[0]?.text, data.candidates?.[0]?.content?.parts?.[0]?.text),*)
(* Undefined when the chain ends early.                                    *)

K_summary ==
    <<"s","u","m","m","a","r","y">>

K_bulletPoints ==
    <<"b","u","l","l","e","t","P","o","i","n","t","s">>

K_highlights ==
    <<"h","i","g","h","l","i","g","h","t","s">>

K_tickets ==
    <<"t","i","c","k","e","t","s">>

K_untracked ==
    <<"u","n","t","r","a","c","k","e","d">>

K_error ==
    <<"e","r","r","o","r">>

K_message ==
    <<"m","e","s","s","a","g","e">>

NoSummary ==
    [summary |-> JsUndefined, bulletPoints |-> JsUndefined,
     highlights |-> JsUndefined, tickets |-> JsUndefined,
     untracked |-> JsUndefined]

Pending == [kind |-> "pending", name |-> "", message |-> <<>>,
            result |-> NoSummary]

\* return result
Returned(r) == [kind |-> "returned", name |-> "", message |-> <<>>,
                result |-> r]

\* throw an error of class `name` with message `msg`
Threw(name, msg) == [kind |-> "threw", name |-> name, message |-> msg,
                     result |-> NoSummary]

\* a string-or-undefined as a JavaScript value
TextValue(text) == IF text = Undefined THEN JsUndefined ELSE JsString(text)

\* { summary: s, bulletPoints: [], highlights: [], tickets: [], untracked: [] }
OnlySummary(s) ==
    [summary |-> s, bulletPoints |-> EmptyArray, highlights |-> EmptyArray,
     tickets |-> EmptyArray, untracked |-> EmptyArray]

\* { summary: parsed.summary || "", bulletPoints: parsed.bulletPoints || [],
\*   highlights: ..., tickets: ..., untracked: ... }
OrDefaults(parsed) ==
    [summary |-> Or(Get(parsed, K_summary), JsString(<<>>)),
     bulletPoints |-> Or(Get(parsed, K_bulletPoints), EmptyArray),
     highlights |-> Or(Get(parsed, K_highlights), EmptyArray),
     tickets |-> Or(Get(parsed, K_tickets), EmptyArray),
     untracked |-> Or(Get(parsed, K_untracked), EmptyArray)]

\* content.match(/\{[\s\S]*\}/): from the first "{" to the last "}"
PlacesOf(s, c) == { i \in 1..Len(s) : s[i] = c }

Least(S) == IF S = {} THEN 0 ELSE CHOOSE i \in S : \A j \in S : i <= j

Greatest(S) == IF S = {} THEN 0 ELSE CHOOSE i \in S : \A j \in S : i >= j

NoMatch == [found |-> FALSE, text |-> <<>>]

BraceSpan(s, open, close) ==
    IF open # 0 /\ open < close
    THEN [found |-> TRUE, text |-> SubSeq(s, open, close)]
    ELSE NoMatch

BraceMatch(s) ==
    BraceSpan(s, Least(PlacesOf(s, "{")), Greatest(PlacesOf(s, "}")))

\* The try block of callOpenAI after JSON.parse(content): reading a property
\* of null throws inside the try
OpenAIParsed(content, p) ==
    IF p.ok /\ ~Nullish(p.value)
    THEN OrDefaults(p.value)
    ELSE OnlySummary(TextValue(content))

OpenAIResult(content) == OpenAIParsed(content, JSONParse(content))

AnthropicParsed(content, p) ==
    IF p.ok THEN OrDefaults(p.value) ELSE OnlySummary(TextValue(content))

AnthropicMatched(content, m) ==
    IF m.found
    THEN AnthropicParsed(content, JSONParse(m.text))
    ELSE OnlySummary(TextValue(content))

\* content.match on an undefined content throws inside the try
AnthropicResult(content) ==
    IF content = Undefined
    THEN OnlySummary(JsUndefined)
    ELSE AnthropicMatched(content, BraceMatch(content))

\* The backtick, a character this notation cannot write inside a string
Backtick == "backtick"

Backticks == <<Backtick, Backtick, Backtick>>

\* .replace(/^FENCEjson\s*/i, ""), FENCE standing for three backticks
StripJsonFence(s) ==
    IF StartsWithAt(s, 1, Backticks)
       /\ Len(s) >= 7
       /\ ToUpperCase(SubSeq(s, 4, 7)) = <<"J", "S", "O", "N">>
    THEN SubSeq(s, SkipWs(s, 8), Len(s))
    ELSE s

\* .replace(/^FENCE\s*/i, "")
StripOpenFence(s) ==
    IF StartsWithAt(s, 1, Backticks)
    THEN SubSeq(s, SkipWs(s, 4), Len(s))
    ELSE s

\* Last place at or before i that holds no white space (0 if none)
RECURSIVE SkipWsBack(_, _)
SkipWsBack(s, i) ==
    IF i >= 1 /\ s[i] \in WhiteSpace THEN SkipWsBack(s, i - 1) ELSE i

\* .replace(/\s*FENCE$/i, ""): the leftmost match takes the white space before
\* the closing fence with it
StripCloseFence(s) ==
    IF Len(s) >= 3 /\ StartsWithAt(s, Len(s) - 2, Backticks)
    THEN SubSeq(s, 1, SkipWsBack(s, Len(s) - 3))
    ELSE s

\* String.prototype.trim
Trim(s) == SubSeq(s, SkipWs(s, 1), SkipWsBack(s, Len(s)))

StripFences(s) == Trim(StripCloseFence(StripOpenFence(StripJsonFence(s))))

SUMMARY_LIMIT == 500

Min(a, b) == IF a < b THEN a ELSE b

\* String.prototype.substring(0, n)
Substring0(s, n) == SubSeq(s, 1, Min(n, Len(s)))

\* content?.substring(0, 500) || "Unable to generate summary"
GoogleCatch(content) ==
    OnlySummary(
      IF Truthy(content)
      THEN JsString(Substring0(content, SUMMARY_LIMIT))
      ELSE JsString(<<"Unable to generate summary">>))

\* The object callGoogle returns after parsing the matched span
GoogleCoerced(parsed) ==
    [summary |-> Or(Get(parsed, K_summary),
                    JsString(<<"Summary generated successfully.">>)),
     bulletPoints |-> ArrayOrEmpty(Get(parsed, K_bulletPoints)),
     highlights |-> ArrayOrEmpty(Get(parsed, K_highlights)),
     tickets |-> ArrayOrEmpty(Get(parsed, K_tickets)),
     untracked |-> ArrayOrEmpty(Get(parsed, K_untracked))]

GoogleMatchParsed(content, p) ==
    IF p.ok THEN GoogleCoerced(p.value) ELSE GoogleCatch(content)

\* const finalParsed = JSON.parse(jsonContent), without a matched span
GoogleWholeParsed(content, p) ==
    IF p.ok /\ ~Nullish(p.value)
    THEN OrDefaults(p.value)
    ELSE GoogleCatch(content)

GoogleMatched(content, jsonContent, m) ==
    IF m.found
    THEN GoogleMatchParsed(content, JSONParse(m.text))
    ELSE GoogleWholeParsed(content, JSONParse(jsonContent))

GoogleCleaned(content, jsonContent) ==
    GoogleMatched(content, jsonContent, BraceMatch(jsonContent))

\* an undefined or empty content skips the clean-up, matches nothing and
\* fails JSON.parse
GoogleResult(content) ==
    IF Truthy(content)
    THEN GoogleCleaned(content, StripFences(content))
    ELSE GoogleCatch(content)

\* "<vendor> API request failed"
FailedMessage(p) ==
    CASE p = "openai" -> <<"OpenAI API request failed">>
      [] p = "anthropic" -> <<"Anthropic API request failed">>
      [] p = "google" -> <<"Google Gemini API request failed">>

\* new Error(v).message is String(v)
MessageText(v) ==
    CASE v.kind \in {"string", "number", "true"} -> v.str
      [] v.kind = "object" -> <<"[object Object]">>

\* error.error?.message
ErrorMessageOf(e) == IF Nullish(e) THEN JsUndefined ELSE Get(e, K_message)

\* throw new Error(error.error?.message || "<vendor> API request failed"),
\* with error = await response.json(): an unreadable body rejects with the
\* SyntaxError of the parser, and reading .error of null throws a TypeError
NotOkParsed(p, parsed) ==
    IF ~parsed.ok
    THEN Threw("SyntaxError", <<"Unexpected token">>)
    ELSE IF Nullish(parsed.value)
    THEN Threw("TypeError", <<"Cannot read properties of null">>)
    ELSE Threw("Error",
               MessageText(Or(ErrorMessageOf(Get(parsed.value, K_error)),
                              JsString(FailedMessage(p)))))

NotOk(p, body) == NotOkParsed(p, JSONParse(body))

AdapterResult(p, content) ==
    CASE p = "openai" -> OpenAIResult(content)
      [] p = "anthropic" -> AnthropicResult(content)
      [] p = "google" -> GoogleResult(content)

\* The adapter of vendor p from the settling of fetch on
Adapter(p, r) ==
    IF ~r.net THEN Threw("TypeError", <<"fetch failed">>)
    ELSE IF ~r.ok THEN NotOk(p, r.body)
    ELSE Returned(AdapterResult(p, r.content))

-----------------------------------------------------------------------------
(* generateSummary (lib/utils.ts) as api/summary/route.ts calls it, without *)
(* ticketGroups: from the call to the settling of its promise.             *)

Providers == { "openai", "anthropic", "google", "mistral" }

SupportedProviders == { "openai", "anthropic", "google" }

ApiKeys == { <<>>, <<"k">> }

NoApiKeyMessage(p) ==
    <<"No API key configured for ", p,
      ". Please add your API key in settings.">>

UnsupportedMessage(p) == <<"Unsupported LLM provider: ", p>>

NoCommitsResult ==
    OnlySummary(JsString(<<"No commits found for the previous working day.">>))

\* commits.map of generateSummary
FlattenAll(cs) == [i \in 1..Len(cs) |-> FlattenCommit(cs[i])]

\* formatCommit of buildPromptFromCommits reads c.message.split: a TypeError
\* on a commit without a message
PromptThrows(flat) == \E i \in 1..Len(flat) : flat[i].message = Undefined

SwitchProvider_DefaultOpenAI(p) == Pending

\* switch (provider): `Pending` is the adapter called and its fetch issued
SwitchProvider(p) ==
    IF p \in SupportedProviders
    THEN Pending
    ELSE Threw("Error", UnsupportedMessage(p))

AfterFlatten(flat, p) ==
    IF PromptThrows(flat)
    THEN Threw("TypeError", <<"Cannot read properties of undefined">>)
    ELSE SwitchProvider(p)

generateSummary_NoShortCircuit(cs, p, key) ==
    IF ~Truthy(key)
    THEN Threw("Error", NoApiKeyMessage(p))
    ELSE AfterFlatten(FlattenAll(cs), p)

\* generateSummary up to its first await
generateSummary(cs, p, key) ==
    IF ~Truthy(key)
    THEN Threw("Error", NoApiKeyMessage(p))
    ELSE IF Len(cs) = 0
    THEN Returned(NoCommitsResult)
    ELSE AfterFlatten(FlattenAll(cs), p)

AfterAdapter_RetryOnFailure(o) ==
    IF o.kind = "threw" THEN "called" ELSE "resolved"

\* return callOpenAI(prompt, apiKey): the promise of generateSummary settles
\* as the adapter's does
AfterAdapter(o) == IF o.kind = "threw" THEN "rejected" ELSE "resolved"

Fix == <<"f","i","x">>

SummaryCommits ==
    { [shape |-> "flat", message |-> Fix, branchName |-> Undefined,
       head |-> Undefined],
      [shape |-> "nested", message |-> Fix, branchName |-> Undefined,
       head |-> FeatureABC12Fix],
      [shape |-> "nested", message |-> <<>>, branchName |-> Undefined,
       head |-> Undefined] }

Prose == <<"D","o","n","e",".">>

LongProse == [i \in 1..(SUMMARY_LIMIT + 1) |-> "x"]

FullJson ==
    <<"{","\"","s","u","m","m","a","r","y","\"",":","\"","s","\"",",","\"",
      "b","u","l","l","e","t","P","o","i","n","t","s","\"",":","[","\"","a",
      "\"","]",",","\"","h","i","g","h","l","i","g","h","t","s","\"",":",
      "[","\"","h","\"","]",",","\"","t","i","c","k","e","t","s","\"",":",
      "[","]",",","\"","u","n","t","r","a","c","k","e","d","\"",":","[","]",
      "}">>

FenceOpen == Backticks \o <<"j","s","o","n","\n">>

FenceClose == <<"\n">> \o Backticks

FencedJson == FenceOpen \o FullJson \o FenceClose

MixedJson ==
    <<"{","\"","s","u","m","m","a","r","y","\"",":","\"","s","\"",",","\"",
      "b","u","l","l","e","t","P","o","i","n","t","s","\"",":","\"","b",
      "\"",",","\"","h","i","g","h","l","i","g","h","t","s","\"",":","5",
      ",","\"","t","i","c","k","e","t","s","\"",":","{","\"","a","\"",":",
      "1","}","}">>

FalsyJson ==
    <<"{","\"","s","u","m","m","a","r","y","\"",":","\"","\"",",","\"","b",
      "u","l","l","e","t","P","o","i","n","t","s","\"",":","\"","\"",",",
      "\"","h","i","g","h","l","i","g","h","t","s","\"",":","0",",","\"",
      "t","i","c","k","e","t","s","\"",":","n","u","l","l","}">>

BracedProse == <<"s","e","e"," ","{","x","}">>

\* a JSON text that is an array of two objects
ArrayJson == <<"[","{","}",",","{","}","]">>

ModelTexts ==
    { Undefined, <<>>, Prose, LongProse, FullJson, FencedJson, MixedJson,
      FalsyJson, BracedProse, ArrayJson, <<"n","u","l","l">>,
      <<"\"","o","k","\"">> }

Quota == <<"q","u","o","t","a">>

QuotaBody ==
    <<"{","\"","e","r","r","o","r","\"",":","{","\"","m","e","s","s","a",
      "g","e","\"",":","\"","q","u","o","t","a","\"","}","}">>

ErrorBodies ==
    { QuotaBody,
      <<"{","\"","e","r","r","o","r","\"",":","{","\"","m","e","s","s","a",
        "g","e","\"",":","\"","\"","}","}">>,
      <<"{","\"","e","r","r","o","r","\"",":","{","}","}">>,
      <<"{","\"","e","r","r","o","r","\"",":","\"","b","a","d","\"","}">>,
      <<"{","}">>,
      <<"n","u","l","l">>,
      <<"<","h","t","m","l",">">>,
      <<>> }

FetchFailed == [net |-> FALSE, ok |-> FALSE, body |-> <<>>,
                content |-> Undefined]

Responses ==
    { FetchFailed }
      \cup { [net |-> TRUE, ok |-> FALSE, body |-> b, content |-> Undefined] :
               b \in ErrorBodies }
      \cup { [net |-> TRUE, ok |-> TRUE, body |-> <<>>, content |-> c] :
               c \in ModelTexts }

NoResponse == [net |-> FALSE, ok |-> FALSE, body |-> <<>>,
               content |-> <<"n","o","n","e">>]

InitLLM ==
    /\ lastIndex = 0
    /\ call = Idle
    /\ gpc = "called"
    /\ \E n \in 0..MaxCommits : commits \in [1..n -> SummaryCommits]
    /\ flattenedCommits = <<>>
    /\ ticketKeys = <<>>
    /\ ticketCommits = <<>>
    /\ untrackedCommits = <<>>
    /\ provider \in Providers
    /\ apiKey \in ApiKeys
    /\ httpCalls = 0
    /\ response = NoResponse
    /\ outcome = Pending
    /\ InitPureIdle
    /\ InitAppIdle

\* The grouping of buildPromptFromCommits, reached with a credential and a
\* commit
Grouping(cs, key) ==
    IF Truthy(key) /\ Len(cs) > 0
    THEN GroupCommits(FlattenAll(cs), Len(cs))
    ELSE NoGroups

\* The call runs to its first await: it throws, returns the canned result,
\* or has built the prompt, called the adapter and issued the adapter's fetch
GenerateSummary ==
    /\ gpc = "called"
    /\ \E o \in {generateSummary(commits, provider, apiKey)} :
          /\ outcome' = o
          /\ gpc' = IF o.kind = "pending" THEN "awaiting" ELSE AfterAdapter(o)
          /\ httpCalls' = IF o.kind = "pending" THEN httpCalls + 1
                          ELSE httpCalls
    /\ flattenedCommits' = IF Truthy(apiKey) THEN FlattenAll(commits) ELSE <<>>
    /\ \E g \in {Grouping(commits, apiKey)} :
          /\ ticketKeys' = g.keys
          /\ ticketCommits' = g.lists
          /\ untrackedCommits' = g.untracked
    /\ lastIndex' = 0
    /\ UNCHANGED <<commits, call, provider, apiKey, response, pureVars, appVars>>

\* fetch settles and the adapter runs to its end
Respond ==
    /\ gpc = "awaiting"
    /\ \E r \in Responses :
          /\ response' = r
          /\ \E o \in {Adapter(provider, r)} :
                /\ outcome' = o
                /\ gpc' = AfterAdapter(o)
    /\ UNCHANGED <<jiraVars, commits, flattenedCommits, ticketKeys,
                   ticketCommits, untrackedCommits, provider, apiKey,
                   httpCalls, pureVars, appVars>>

NextLLM ==
    \/ GenerateSummary
    \/ Respond

SpecLLM == InitLLM /\ [][NextLLM]_vars

-----------------------------------------------------------------------------
(* Properties of generateSummary and the adapters.                         *)

Settled == gpc \in {"resolved", "rejected"}

Answered == Settled /\ response # NoResponse

FourLists(r) == <<r.bulletPoints, r.highlights, r.tickets, r.untracked>>

\* C11 (as claimed): generateSummary with an empty commit list returns the
\* canned "No commits found" result and makes no HTTP call, whatever the
\* vendor selector and the credential
C11_EmptyListAnyCredential ==
    (gpc # "called" /\ Len(commits) = 0)
       => /\ outcome = Returned(NoCommitsResult)
          /\ httpCalls = 0

\* C11 (amended): with an empty commit list generateSummary makes no HTTP
\* call; it returns the canned "No commits found" result for every vendor
\* selector when the credential is not empty, and raises the missing-key
\* error when the credential is empty
C11_EmptyListWithCredential ==
    (gpc # "called" /\ Len(commits) = 0)
       => /\ httpCalls = 0
          /\ gpc # "awaiting"
          /\ Truthy(apiKey) => outcome = Returned(NoCommitsResult)
          /\ ~Truthy(apiKey)
                => outcome = Threw("Error", NoApiKeyMessage(provider))

C11_Witness ==
    /\ gpc = "resolved"
    /\ Len(commits) = 0
    /\ provider = "mistral"
    /\ Truthy(apiKey)
    /\ outcome.result.summary.str
         = <<"No commits found for the previous working day.">>
    /\ httpCalls = 0

ConfigurationError == ~Truthy(apiKey) \/ provider \notin SupportedProviders

ProseOnly(text) ==
    /\ Truthy(text)
    /\ ~JSONParse(text).ok
    /\ PlacesOf(text, "{") = {}

IsPrefixOf(p, text) == Len(p) <= Len(text) /\ p = SubSeq(text, 1, Len(p))

\* C13: for each adapter, a 2xx response whose model text is not JSON
\* (plain prose) does not throw and gives a SummaryResult whose summary is
\* a non-empty prefix of at most 500 characters of the text, with
\* bulletPoints, highlights, tickets and untracked all empty
C13_ProseTruncated ==
    (Answered /\ response.net /\ response.ok /\ ProseOnly(response.content))
       => /\ outcome.kind = "returned"
          /\ outcome.result.summary.kind = "string"
          /\ Len(outcome.result.summary.str) \in 1..SUMMARY_LIMIT
          /\ IsPrefixOf(outcome.result.summary.str, response.content)
          /\ \A i \in 1..4 : FourLists(outcome.result)[i] = EmptyArray

\* the text is the fence opener, a JSON object and the fence closer
Fenced(text) ==
    /\ Truthy(text)
    /\ Len(text) > Len(FenceOpen) + Len(FenceClose)
    /\ SubSeq(text, 1, Len(FenceOpen)) = FenceOpen
    /\ SubSeq(text, Len(text) - Len(FenceClose) + 1, Len(text)) = FenceClose

Embedded(text) ==
    JSONParse(SubSeq(text, Len(FenceOpen) + 1, Len(text) - Len(FenceClose)))

\* C14: for each adapter, a model text that is valid JSON inside json code
\* fences gives a SummaryResult whose five fields are the values of the
\* embedded JSON
C14_FencesStripped ==
    (Answered /\ response.net /\ response.ok /\ Fenced(response.content)
       /\ Embedded(response.content).ok)
       => /\ outcome.kind = "returned"
          /\ outcome.result.summary
               = Get(Embedded(response.content).value, K_summary)
          /\ outcome.result.bulletPoints
               = Get(Embedded(response.content).value, K_bulletPoints)
          /\ outcome.result.highlights
               = Get(Embedded(response.content).value, K_highlights)
          /\ outcome.result.tickets
               = Get(Embedded(response.content).value, K_tickets)
          /\ outcome.result.untracked
               = Get(Embedded(response.content).value, K_untracked)

ListKeys == <<K_bulletPoints, K_highlights, K_tickets, K_untracked>>

ParsesToObject(text) ==
    /\ Truthy(text)
    /\ JSONParse(text).ok
    /\ JSONParse(text).value.kind = "object"

\* C15: for each adapter, after a successful parse each of bulletPoints,
\* highlights, tickets and untracked of the result is an array: the parsed
\* array when the field is one, the empty array when it is missing or is
\* not an array
C15_ListsAreArrays ==
    (Answered /\ response.net /\ response.ok
       /\ ParsesToObject(response.content))
       => /\ outcome.kind = "returned"
          /\ \A i \in 1..4 :
                FourLists(outcome.result)[i]
                  = ArrayOrEmpty(Get(JSONParse(response.content).value,
                                     ListKeys[i]))

\* the message an error body reports: error.message when the body is a JSON
\* object that has one, a non-empty string
ReportedMessage(body) ==
    IF JSONParse(body).ok
    THEN Get(Get(JSONParse(body).value, K_error), K_message)
    ELSE JsUndefined

CarriesMessage(body) ==
    /\ ReportedMessage(body).kind = "string"
    /\ Len(ReportedMessage(body).str) > 0

\* C16: for each adapter, a non-2xx response makes the call raise an error
\* whose message is the message the error body reports when it reports
\* one, and the generic "<vendor> API request failed" otherwise (a body
\* without a message, or a body that cannot be read)
C16_ErrorMessage ==
    (Answered /\ response.net /\ ~response.ok)
       => /\ outcome.kind = "threw"
          /\ outcome.message
               = IF CarriesMessage(response.body)
                 THEN ReportedMessage(response.body).str
                 ELSE FailedMessage(provider)

\* C17: a call of generateSummary issues at most one HTTP request, whether
\* the response is a failure, a success or a success that does not parse
C17_AtMostOneRequest ==
    /\ httpCalls <= 1
    /\ Answered => httpCalls = 1

C17_Witness ==
    /\ gpc = "rejected"
    /\ httpCalls = 1
    /\ response.net
    /\ ~response.ok
    /\ response.body = QuotaBody
    /\ outcome.message = Quota

\* the text the adapter parses: callGoogle strips the fences, callAnthropic
\* takes the text as it is
CleanedText(p, content) ==
    IF p = "google" THEN StripFences(content) ELSE content

\* the result of the adapter's catch (callGoogle) or last return
\* (callAnthropic): the raw text as summary and nothing else
ParseFailureResult(p, content) ==
    IF p = "google" THEN GoogleCatch(content)
    ELSE OnlySummary(TextValue(content))

SpanParses(text) == BraceMatch(text).found /\ JSONParse(BraceMatch(text).text).ok

\* C24: callAnthropic and callGoogle give the parse-failure result only when
\* neither the span from the first "{" to the last "}" of the cleaned text
\* nor the whole cleaned text parses
C24_WholeTextTried ==
    (Answered /\ response.net /\ response.ok
       /\ provider \in {"anthropic", "google"} /\ Truthy(response.content)
       /\ outcome.kind = "returned"
       /\ outcome.result = ParseFailureResult(provider, response.content))
       => /\ ~SpanParses(CleanedText(provider, response.content))
          /\ ~JSONParse(CleanedText(provider, response.content)).ok

-----------------------------------------------------------------------------
(* calculateComplexity (lib/utils.ts).                                     *)
(*                                                                         *)
(* The score is computed in JavaScript numbers, IEEE 754 doubles: each     *)
(* division and each addition gives the double nearest to the exact        *)
(* result, ties to the even significand.  A non-negative double is written *)
(* here as [int, frac]: its integer part and the bits of its fraction,     *)
(* frac[k] weighing 2^-k.  Every intermediate value of the score is far    *)
(* inside the normal range.                                                *)

SIGNIFICAND_BITS == 53

\* Number of bits of the natural number n (0 for 0)
RECURSIVE BitLength(_)
BitLength(n) == IF n = 0 THEN 0 ELSE 1 + BitLength(n \div 2)

\* Place of the first 1 in bits from place k on (Len(bits) + 1 if none)
RECURSIVE FirstOneFrom(_, _)
FirstOneFrom(bits, k) ==
    IF k > Len(bits) \/ bits[k] = 1 THEN k ELSE FirstOneFrom(bits, k + 1)

HasOneFrom(bits, k) == FirstOneFrom(bits, k) <= Len(bits)

\* How many fraction bits a double of this size holds
KeptFractionBits(int, frac) ==
    IF int > 0
    THEN SIGNIFICAND_BITS - BitLength(int)
    ELSE FirstOneFrom(frac, 1) + SIGNIFICAND_BITS - 1

\* int.bits plus one unit in the last place of bits
RECURSIVE IncrementAt(_, _, _)
IncrementAt(int, bits, k) ==
    IF k = 0 THEN [int |-> int + 1, frac |-> bits]
    ELSE IF bits[k] = 0 THEN [int |-> int, frac |-> [bits EXCEPT ![k] = 1]]
    ELSE IncrementAt(int, [bits EXCEPT ![k] = 0], k - 1)

LastKeptBit(int, frac, keep) == IF keep > 0 THEN frac[keep] ELSE int % 2

RoundUp(int, frac, keep, sticky) ==
    /\ frac[keep + 1] = 1
    /\ \/ sticky
       \/ HasOneFrom(frac, keep + 2)
       \/ LastKeptBit(int, frac, keep) = 1

RoundAt(int, frac, keep, sticky) ==
    IF Len(frac) <= keep THEN [int |-> int, frac |-> frac]
    ELSE IF RoundUp(int, frac, keep, sticky)
    THEN IncrementAt(int, SubSeq(frac, 1, keep), keep)
    ELSE [int |-> int, frac |-> SubSeq(frac, 1, keep)]

\* The double nearest to int.frac (plus something below the last bit of
\* frac when sticky), ties to even
RoundToDouble(int, frac, sticky) ==
    IF int = 0 /\ ~HasOneFrom(frac, 1)
    THEN [int |-> 0, frac |-> <<>>]
    ELSE RoundAt(int, frac, KeptFractionBits(int, frac), sticky)

DIVISION_BITS == 64

\* The first n bits of the fraction r / d (r < d) and what is left over
RECURSIVE FractionBits(_, _, _, _)
FractionBits(r, d, n, bits) ==
    IF n = 0 THEN [bits |-> bits, rest |-> r]
    ELSE FractionBits((2 * r) % d, d, n - 1, Append(bits, (2 * r) \div d))

QuotientRounded(int, f) == RoundToDouble(int, f.bits, f.rest # 0)

\* a / d in doubles, for natural numbers a and d
Divide(a, d) ==
    QuotientRounded(a \div d, FractionBits(a % d, d, DIVISION_BITS, <<>>))

BitAt(bits, k) == IF k <= Len(bits) THEN bits[k] ELSE 0

Max(a, b) == IF a > b THEN a ELSE b

\* The exact sum of two fractions, place by place from the last one: the
\* bits of the sum and the carry into the integer part
RECURSIVE SumBits(_, _, _, _, _)
SumBits(x, y, k, carry, bits) ==
    IF k = 0 THEN [bits |-> bits, carry |-> carry]
    ELSE SumBits(x, y, k - 1,
                 (BitAt(x, k) + BitAt(y, k) + carry) \div 2,
                 <<(BitAt(x, k) + BitAt(y, k) + carry) % 2>> \o bits)

SumRounded(int, s) == RoundToDouble(int + s.carry, s.bits, FALSE)

\* x + y in doubles
Plus(x, y) ==
    SumRounded(x.int + y.int,
               SumBits(x.frac, y.frac, Max(Len(x.frac), Len(y.frac)), 0, <<>>))

\* A natural number as a double (exact below 2^53)
Double(n) == [int |-> n, frac |-> <<>>]

\* x < n for a natural number n
LessThan(x, n) == x.int < n

\* Math.round: the nearest integer, a tie going up
MathRound(x) == x.int + BitAt(x.frac, 1)

RECURSIVE SumOf(_, _)
\* commits.reduce((sum, c) => sum + c[field], 0)
SumOf(cs, field) ==
    IF Len(cs) = 0 THEN 0
    ELSE SumOf(SubSeq(cs, 1, Len(cs) - 1), field) + cs[Len(cs)][field]

\* totalCommits * 2 + totalAdditions / 50 + totalDeletions / 100
\*   + totalFilesChanged, added from left to right
Score(n, adds, dels, files) ==
    Plus(Plus(Plus(Double(n * 2), Divide(adds, 50)), Divide(dels, 100)),
         Double(files))

LevelOf(score) ==
    IF LessThan(score, 5) THEN "simple"
    ELSE IF LessThan(score, 15) THEN "moderate"
    ELSE IF LessThan(score, 30) THEN "complex"
    ELSE "major"

Metrics(n, adds, dels, files, score) ==
    [totalCommits |-> n, totalAdditions |-> adds, totalDeletions |-> dels,
     totalFilesChanged |-> files, level |-> LevelOf(score),
     score |-> MathRound(score)]

Totals(n, adds, dels, files) ==
    Metrics(n, adds, dels, files, Score(n, adds, dels, files))

calculateComplexity(cs) ==
    Totals(Len(cs), SumOf(cs, "additions"), SumOf(cs, "deletions"),
           SumOf(cs, "filesChanged"))

MaxStatCommits == 2

\* additions, deletions and filesChanged of a commit
StatCommits ==
    [additions : {0, 57, 114}, deletions : {0, 36, 72}, filesChanged : {0, 1}]

\* ten commits with 600 additions, 50 deletions and 20 files between them
TenCommits ==
    [i \in 1..10 |-> [additions |-> 60, deletions |-> 5, filesChanged |-> 2]]

NoMetrics ==
    [totalCommits |-> 0, totalAdditions |-> 0, totalDeletions |-> 0,
     totalFilesChanged |-> 0, level |-> "none", score |-> 0]

InitComplexity ==
    /\ lastIndex = 0
    /\ call = Idle
    /\ InitGroupIdle
    /\ InitLLMIdle
    /\ InitAppIdle
    /\ \E cs \in UNION { [1..n -> StatCommits] : n \in 0..MaxStatCommits }
                   \cup { TenCommits } :
          metrics = [pc |-> "called", commits |-> cs, result |-> NoMetrics]
    /\ diffCall = "none"
    /\ promptCall = "none"

CalculateComplexity ==
    /\ metrics.pc = "called"
    /\ metrics' = [metrics EXCEPT !.pc = "returned",
                                  !.result = calculateComplexity(metrics.commits)]
    /\ UNCHANGED <<jiraVars, groupVars, llmVars, diffCall, promptCall, appVars>>

NextComplexity == CalculateComplexity

SpecComplexity == InitComplexity /\ [][NextComplexity]_vars

\* One hundred times the score commits*2 + additions/50 + deletions/100
\* + filesChanged of the totals r, which is a whole number
HundredTimesScore(r) ==
    200 * r.totalCommits + 2 * r.totalAdditions + r.totalDeletions
      + 100 * r.totalFilesChanged

LevelOfHundredTimes(s) ==
    IF s < 500 THEN "simple"
    ELSE IF s < 1500 THEN "moderate"
    ELSE IF s < 3000 THEN "complex"
    ELSE "major"

\* C18: calculateComplexity returns the number of commits and the sums of
\* additions, deletions and filesChanged; its level is the one of the score
\* s = commits*2 + additions/50 + deletions/100 + filesChanged against the
\* thresholds 5, 15 and 30, and its score is s rounded to the nearest
\* integer, a half going up
C18_ExactScore ==
    metrics.pc = "returned"
       => /\ metrics.result.totalCommits = Len(metrics.commits)
          /\ metrics.result.totalAdditions = SumOf(metrics.commits, "additions")
          /\ metrics.result.totalDeletions = SumOf(metrics.commits, "deletions")
          /\ metrics.result.totalFilesChanged
               = SumOf(metrics.commits, "filesChanged")
          /\ metrics.result.level
               = LevelOfHundredTimes(HundredTimesScore(metrics.result))
          /\ metrics.result.score
               = (HundredTimesScore(metrics.result) + 50) \div 100

-----------------------------------------------------------------------------
(* formatDiffForPrompt (lib/utils.ts).                                     *)
(*                                                                         *)
(* The text it builds is kept as the sequence of the pieces appended to    *)
(* diffText, one per `diffText +=`: the "File" line of a file, the opening *)
(* fence, the patch lines (each written after two spaces, joined by line   *)
(* ends), the "... (truncated)" marker, the closing fence and the          *)
(* "... and N more files" note.                                            *)

PATCH_LINES == 30

DEFAULT_MAX_FILES == 5

\* String.prototype.split("\n"), from place i on with the line begun so far
RECURSIVE SplitLines(_, _, _)
SplitLines(s, i, line) ==
    IF i > Len(s) THEN <<line>>
    ELSE IF s[i] = "\n" THEN <<line>> \o SplitLines(s, i + 1, <<>>)
    ELSE SplitLines(s, i + 1, Append(line, s[i]))

Split(s) == SplitLines(s, 1, <<>>)

\* Array.prototype.slice(0, n)
SliceTo(list, n) ==
    IF n >= 0
    THEN SubSeq(list, 1, Min(n, Len(list)))
    ELSE SubSeq(list, 1, Max(Len(list) + n, 0))

Piece(kind, name, lines, count) ==
    [kind |-> kind, name |-> name, lines |-> lines, count |-> count]

FileLine(file) == Piece("File", file.filename, <<>>, 0)

Fence == Piece("fence", <<>>, <<>>, 0)

TruncatedMark == Piece("truncated", <<>>, <<>>, 0)

MarkIfLonger_AtLimit(lines) ==
    IF Len(lines) >= PATCH_LINES THEN <<TruncatedMark>> ELSE <<>>

\* if (file.patch.split("\n").length > 30) diffText += "\n  ... (truncated)"
MarkIfLonger(lines) ==
    IF Len(lines) > PATCH_LINES THEN <<TruncatedMark>> ELSE <<>>

PatchOfLines(lines) ==
    <<Fence, Piece("patch", <<>>, SliceTo(lines, PATCH_LINES), 0)>>
      \o MarkIfLonger(lines)
      \o <<Fence>>

\* if (file.patch) { ... }
PatchPieces(patch) ==
    IF Truthy(patch) THEN PatchOfLines(Split(patch)) ELSE <<>>

FilePieces(file) == <<FileLine(file)>> \o PatchPieces(file.patch)

RECURSIVE FilesPieces(_)
FilesPieces(files) ==
    IF Len(files) = 0 THEN <<>>
    ELSE FilePieces(files[1]) \o FilesPieces(Tail(files))

\* if (diff.files.length > maxFiles) diffText += "... and N more files"
MoreFiles(n, maxFiles) ==
    IF n > maxFiles THEN <<Piece("more", <<>>, <<>>, n - maxFiles)>> ELSE <<>>

FormatFiles(files, maxFiles) ==
    FilesPieces(SliceTo(files, maxFiles)) \o MoreFiles(Len(files), maxFiles)

\* maxFiles: number = 5
MaxFilesOr(maxFiles) ==
    IF maxFiles.given THEN maxFiles.value ELSE DEFAULT_MAX_FILES

formatDiffForPrompt(diff, maxFiles) ==
    IF ~diff.hasFiles \/ Len(diff.files) = 0
    THEN <<>>
    ELSE FormatFiles(diff.files, MaxFilesOr(maxFiles))

MaxDiffFiles == 3

\* A patch of k lines
PatchOf(k) == [i \in 1..(2 * k - 1) |-> IF i % 2 = 1 THEN "+" ELSE "\n"]

Patches ==
    { Undefined, <<>>, PatchOf(1), PatchOf(PATCH_LINES),
      PatchOf(PATCH_LINES + 1) }

DiffFiles == [filename : { <<"a",".","t","s">> }, patch : Patches]

\* ten files, the first with a patch of 31 lines
TenFiles ==
    [i \in 1..10 |->
       [filename |-> <<"a",".","t","s">>,
        patch |-> IF i = 1 THEN PatchOf(PATCH_LINES + 1) ELSE PatchOf(1)]]

\* hasFiles is FALSE for a diff without `files`
Diffs ==
    { [hasFiles |-> FALSE, files |-> <<>>],
      [hasFiles |-> TRUE, files |-> TenFiles] }
      \cup { [hasFiles |-> TRUE, files |-> f] :
               f \in UNION { [1..n -> DiffFiles] : n \in 0..MaxDiffFiles } }

\* the second argument: left out, or a number
MaxFilesArgs ==
    { [given |-> FALSE, value |-> 0] }
      \cup { [given |-> TRUE, value |-> n] : n \in 0..3 }

InitDiff ==
    /\ lastIndex = 0
    /\ call = Idle
    /\ InitGroupIdle
    /\ InitLLMIdle
    /\ InitAppIdle
    /\ metrics = "none"
    /\ \E d \in Diffs, mf \in MaxFilesArgs :
          diffCall = [pc |-> "called", diff |-> d, maxFiles |-> mf,
                      text |-> <<>>]
    /\ promptCall = "none"

FormatDiffForPrompt ==
    /\ diffCall.pc = "called"
    /\ diffCall' = [diffCall EXCEPT
                      !.pc = "returned",
                      !.text = formatDiffForPrompt(diffCall.diff,
                                                   diffCall.maxFiles)]
    /\ UNCHANGED <<jiraVars, groupVars, llmVars, metrics, promptCall, appVars>>

NextDiff == FormatDiffForPrompt

SpecDiff == InitDiff /\ [][NextDiff]_vars

\* Places of the pieces of a kind in a text, in increasing order
PlacesOfKind(text, kind) == { i \in 1..Len(text) : text[i].kind = kind }

\* The place of the k-th "File" line
FilePlace(text, k) ==
    CHOOSE i \in PlacesOfKind(text, "File") :
       Cardinality({ j \in PlacesOfKind(text, "File") : j <= i }) = k

\* The pieces of the k-th file block: from its "File" line up to the next
\* "File" line, the "more" note, or the end
BlockEnd(text, from) ==
    Least({ j \in (from + 1)..(Len(text) + 1) :
              j = Len(text) + 1 \/ text[j].kind \in {"File", "more"} }) - 1

Block(text, k) ==
    SubSeq(text, FilePlace(text, k), BlockEnd(text, FilePlace(text, k)))

\* number of lines of a patch text: one more than its line ends
LineCount(patch) == Cardinality(PlacesOf(patch, "\n")) + 1

FilesGiven(d) == IF d.hasFiles THEN d.files ELSE <<>>

\* C19: formatDiffForPrompt of n files with limit maxFiles renders the first
\* min(n, maxFiles) files, in order, then a note of n - maxFiles more files
\* exactly when n > maxFiles; a rendered patch has at most 30 lines and is
\* marked "(truncated)" exactly when the patch had more than 30 lines
C19_BoundedAndMarked ==
    diffCall.pc = "returned"
       => LET text == diffCall.text
              files == FilesGiven(diffCall.diff)
              n == Len(files)
              limit == MaxFilesOr(diffCall.maxFiles)
              shown == Min(n, limit)
          IN /\ Cardinality(PlacesOfKind(text, "File")) = shown
             /\ Cardinality(PlacesOfKind(text, "more"))
                  = IF n > limit THEN 1 ELSE 0
             /\ n > limit
                  => /\ text[Len(text)].kind = "more"
                     /\ text[Len(text)].count = n - limit
             /\ \A k \in 1..shown :
                  /\ Block(text, k)[1].name = files[k].filename
                  /\ \A i \in PlacesOfKind(Block(text, k), "patch") :
                        Len(Block(text, k)[i].lines) <= PATCH_LINES
                  /\ Cardinality(PlacesOfKind(Block(text, k), "patch"))
                       = IF Truthy(files[k].patch) THEN 1 ELSE 0
                  /\ (PlacesOfKind(Block(text, k), "truncated") # {})
                       <=> (Truthy(files[k].patch)
                              /\ LineCount(files[k].patch) > PATCH_LINES)

\* ten files with maxFiles = 3: three blocks, the first one truncated, and
\* the note of 7 more files
C19_Witness ==
    /\ diffCall.pc = "returned"
    /\ diffCall.diff.files = TenFiles
    /\ diffCall.maxFiles = [given |-> TRUE, value |-> 3]
    /\ Cardinality(PlacesOfKind(diffCall.text, "File")) = 3
    /\ diffCall.text[4] = TruncatedMark
    /\ diffCall.text[Len(diffCall.text)].kind = "more"
    /\ diffCall.text[Len(diffCall.text)].count = 7

-----------------------------------------------------------------------------
(* buildPromptWithDiffs (lib/utils.ts) and the two builders behind it.     *)
(*                                                                         *)
(* A prompt is kept by its structure: the "## Ticket:" sections in text    *)
(* order, each with the commits listed under it, the commits of the        *)
(* no-ticket section (none when the section is left out), and the ticket   *)
(* IDs written into the JSON format.  A commit is known by its sha, which  *)
(* is its place in the list.                                               *)
(*                                                                         *)
(* groupCommitsByTicket is imported by api/commits/route.ts from           *)
(* lib/github, which is not among the sources; it is written here from     *)
(* section 4.2 of the specification.                                       *)

Section(ticket, members) == [ticketId |-> ticket, commits |-> members]

PromptOf(sections, orphans, ticketList) ==
    [sections |-> sections, orphans |-> orphans, ticketList |-> ticketList]

\* 4.2 step 1 for one branch name: "anchored + general"
BranchTickets(b) ==
    PushIfTicket(extractTicketFromBranch(b)) \o extractJiraTickets(b)

\* 4.2 step 1: the commit's own branch name, its PR's head branch name
\* (same extraction) and its message text (general), as a deduplicated set
GroupedCommitTickets(c) ==
    UniqueInOrder(BranchTickets(c.branchName) \o BranchTickets(c.headBranch)
                    \o extractJiraTickets(c.message))

\* 4.2 steps 2, 3 and 5 for the first n commits: an orphan without a ticket,
\* else appended to each ticket's group, groups in first-seen order
RECURSIVE GroupByTicket(_, _)
GroupByTicket(cs, n) ==
    IF n = 0 THEN NoGroups
    ELSE PushOrUntracked(GroupByTicket(cs, n - 1),
                         GroupedCommitTickets(cs[n]), n)

SectionsOf(g) ==
    [k \in 1..Len(g.keys) |-> Section(g.keys[k], g.lists[g.keys[k]])]

\* 4.2 contract: (a) the ordered TicketGroups, (b) the ordered orphans
groupCommitsByTicket(cs) ==
    [ticketGroups |-> SectionsOf(GroupByTicket(cs, Len(cs))),
     orphanCommits |-> GroupByTicket(cs, Len(cs)).untracked]

\* new Set(ticketGroups.flatMap((g) => g.commits.map((c) => c.sha)))
TicketCommitShas(ticketGroups) ==
    UNION { Range(ticketGroups[k].commits) : k \in 1..Len(ticketGroups) }

\* allCommits.filter((c) => !ticketCommitShas.has(c.sha)), first n commits
RECURSIVE OrphansUpTo(_, _)
OrphansUpTo(shas, n) ==
    IF n = 0 THEN <<>>
    ELSE OrphansUpTo(shas, n - 1) \o (IF n \in shas THEN <<>> ELSE <<n>>)

\* One section per group with group.commits under it, "## Other Work" for
\* the commits in no group, ticketList = ticketGroups.map((g) => g.ticketId)
buildPromptFromTicketGroups(ticketGroups, allCommits) ==
    PromptOf([k \in 1..Len(ticketGroups) |->
                 Section(ticketGroups[k].ticketId, ticketGroups[k].commits)],
             OrphansUpTo(TicketCommitShas(ticketGroups), Len(allCommits)),
             [k \in 1..Len(ticketGroups) |-> ticketGroups[k].ticketId])

\* One section per entry of ticketCommits, "## Untracked Work" for
\* untrackedCommits, ticketList = Object.keys(ticketCommits)
buildPromptFromCommits(cs) ==
    PromptOf(SectionsOf(GroupCommits(cs, Len(cs))),
             GroupCommits(cs, Len(cs)).untracked,
             GroupCommits(cs, Len(cs)).keys)

\* the optional argument ticketGroups left out
NoTicketGroups == [given |-> FALSE, groups |-> <<>>]

TicketGroupsArg(groups) == [given |-> TRUE, groups |-> groups]

\* if (ticketGroups && ticketGroups.length > 0) ... else buildPromptFromCommits
buildPromptWithDiffs(cs, ticketGroups) ==
    IF ticketGroups.given /\ Len(ticketGroups.groups) > 0
    THEN buildPromptFromTicketGroups(ticketGroups.groups, cs)
    ELSE buildPromptFromCommits(cs)

TwoTicketBranch == <<"E","F","-","3","_","A","B","-","1">>

PromptMessages == { <<"f","i","x">>, <<"A","B","C","-","1","2"," ","x">> }

PromptBranches == { Undefined, FeatureABC12Fix, TwoTicketBranch }

\* FlattenedCommit: message, branchName, pullRequest?.headBranch
PromptCommits ==
    [message : PromptMessages, branchName : PromptBranches,
     headBranch : CommitHeads]

NotBuilt == [done |-> FALSE, prompt |-> PromptOf(<<>>, <<>>, <<>>)]

Built(prompt) == [done |-> TRUE, prompt |-> prompt]

InitPrompt ==
    /\ lastIndex = 0
    /\ call = Idle
    /\ InitGroupIdle
    /\ InitLLMIdle
    /\ InitAppIdle
    /\ metrics = "none"
    /\ diffCall = "none"
    /\ \E n \in 0..MaxCommits :
          \E cs \in [1..n -> PromptCommits] :
             promptCall = [commits |-> cs, legacy |-> NotBuilt,
                           grouped |-> NotBuilt]

\* buildPromptWithDiffs(commits): the flat list alone
BuildPromptFlat ==
    /\ ~promptCall.legacy.done
    /\ promptCall' =
         [promptCall EXCEPT !.legacy =
             Built(buildPromptWithDiffs(promptCall.commits, NoTicketGroups))]
    /\ UNCHANGED <<jiraVars, groupVars, llmVars, metrics, diffCall, appVars>>

\* buildPromptWithDiffs(commits, ticketGroups) with the groups that
\* groupCommitsByTicket computed from the same commits
BuildPromptGrouped ==
    /\ ~promptCall.grouped.done
    /\ promptCall' =
         [promptCall EXCEPT !.grouped =
             Built(buildPromptWithDiffs(promptCall.commits,
                     TicketGroupsArg(
                       groupCommitsByTicket(promptCall.commits).ticketGroups)))]
    /\ UNCHANGED <<jiraVars, groupVars, llmVars, metrics, diffCall, appVars>>

NextPrompt ==
    \/ BuildPromptFlat
    \/ BuildPromptGrouped

SpecPrompt == InitPrompt /\ [][NextPrompt]_vars

\* C20: for the same commits, the prompt built from the flat list alone and
\* the prompt built with the ticket groups computed from them have the same
\* ticket sections (IDs, order, member commits), the same orphan commits
\* and the same ticket IDs in the JSON format
C20_SameStructure ==
    (promptCall.legacy.done /\ promptCall.grouped.done)
       => promptCall.legacy.prompt = promptCall.grouped.prompt


\* The tickets under whose section of a prompt the commit at place i is listed
SectionsWith(prompt, i) ==
    { prompt.sections[k].ticketId :
        k \in { j \in 1..Len(prompt.sections) :
                  i \in Range(prompt.sections[j].commits) } }

\* C23: in the grouping of buildPromptFromCommits a commit is listed under
\* every ticket of its branch name (the anchored match and the general
\* matches), of its PR head branch name (likewise) and of its message
C23_AllBranchTickets ==
    promptCall.legacy.done
       => \A i \in 1..Len(promptCall.commits) :
             SectionsWith(promptCall.legacy.prompt, i)
               = Range(BranchTickets(promptCall.commits[i].branchName))
                   \cup Range(BranchTickets(promptCall.commits[i].headBranch))
                   \cup Range(extractJiraTickets(promptCall.commits[i].message))

-----------------------------------------------------------------------------
(* The dashboard page and the settings dialog (app/dashboard/page.tsx,     *)
(* components/llm-settings.tsx, components/summary-panel.tsx).             *)
(*                                                                         *)
(* A request of the browser is kept with its route, the apiKey field of    *)
(* its JSON body (Undefined when the body has none), the repos it asks for *)
(* and whether saveSummary was called by generateSummary (auto).  Requests *)
(* are answered in any order.  The data of a /api/commits response is      *)
(* known by the repos it was asked for and by whether it holds a commit.   *)

MaxClicks == 3

RepoLists == { <<>>, <<"a">>, <<"a","b">> }

StoredKeys == { <<>>, <<"k">> }

Request(route, key, repos, auto) ==
    [route |-> route, apiKey |-> key, repos |-> repos, auto |-> auto]

\* body: JSON.stringify({ repos: selectedRepos, githubPat, date })
CommitsRequest(repos) == Request("/api/commits", Undefined, repos, FALSE)

\* body: JSON.stringify({ commits, provider: llmProvider, apiKey })
SummaryRequest(key) == Request("/api/summary", key, <<>>, FALSE)

\* body: JSON.stringify({ summaryDate, summaryText, ..., llmProvider })
SaveRequest(auto) == Request("/api/summaries", Undefined, <<>>, auto)

\* body: JSON.stringify({ provider: llmProvider, apiKey: currentApiKey })
TestRequest(key) == Request("/api/llm/test", key, <<>>, FALSE)

Sent(r) == [route |-> r.route, apiKey |-> r.apiKey]

Without(s, i) == SubSeq(s, 1, i - 1) \o SubSeq(s, i + 1, Len(s))

\* The page after its first render and effects: the store is read from
\* localStorage, and the effect calls fetchCommits when repos are selected
InitDashboard ==
    /\ lastIndex = 0
    /\ call = Idle
    /\ InitGroupIdle
    /\ InitLLMIdle
    /\ InitPureIdle
    /\ dateCall = "none"
    /\ InitRouteIdle
    /\ InitReposIdle
    /\ selectedRepos \in RepoLists
    /\ storedKey \in StoredKeys
    /\ testStatus = "idle"
    /\ dashData = NoData
    /\ loadingCommits = (Len(selectedRepos) > 0)
    /\ commitsError = FALSE
    /\ summary = "null"
    /\ loadingSummary = FALSE
    /\ summaryError = FALSE
    /\ saveStatus = "idle"
    /\ inFlight = IF Len(selectedRepos) > 0
                  THEN <<CommitsRequest(selectedRepos)>> ELSE <<>>
    /\ timers = 0
    /\ sent = IF Len(selectedRepos) > 0
              THEN {Sent(CommitsRequest(selectedRepos))} ELSE {}
    /\ clicks = 0

Issue(r) ==
    /\ inFlight' = Append(inFlight, r)
    /\ sent' = sent \cup {Sent(r)}

Click ==
    /\ clicks < MaxClicks
    /\ clicks' = clicks + 1

\* RepoSelector changes selectedRepos; the effect on [status, selectedRepos,
\* fetchCommits] calls fetchCommits when the new list is not empty
SelectRepos ==
    /\ Click
    /\ \E repos \in RepoLists \ {selectedRepos} :
          /\ selectedRepos' = repos
          /\ IF Len(repos) > 0
             THEN /\ loadingCommits' = TRUE
                  /\ commitsError' = FALSE
                  /\ Issue(CommitsRequest(repos))
             ELSE UNCHANGED <<loadingCommits, commitsError, inFlight, sent>>
    /\ UNCHANGED <<storedKey, testStatus, dashData, summary, loadingSummary,
                   summaryError, saveStatus, timers>>
    /\ UNCHANGED nonDashVars

\* The Refresh button: disabled={loadingCommits || selectedRepos.length === 0}
Refresh ==
    /\ Click
    /\ ~loadingCommits
    /\ Len(selectedRepos) > 0
    /\ loadingCommits' = TRUE
    /\ commitsError' = FALSE
    /\ Issue(CommitsRequest(selectedRepos))
    /\ UNCHANGED <<selectedRepos, storedKey, testStatus, dashData, summary,
                   loadingSummary, summaryError, saveStatus, timers>>
    /\ UNCHANGED nonDashVars

\* fetchCommits after its await: setCommits(data.commits) ... on an ok
\* response, setCommitsError otherwise, setLoadingCommits(false) at the end
CommitsRespond ==
    /\ \E i \in 1..Len(inFlight) :
          /\ inFlight[i].route = "/api/commits"
          /\ inFlight' = Without(inFlight, i)
          /\ \E ok \in BOOLEAN, count \in {0, 1} :
                IF ok
                THEN /\ dashData' = [repos |-> inFlight[i].repos,
                                     count |-> count]
                     /\ UNCHANGED commitsError
                ELSE /\ commitsError' = TRUE
                     /\ UNCHANGED dashData
    /\ loadingCommits' = FALSE
    /\ UNCHANGED <<selectedRepos, storedKey, testStatus, summary,
                   loadingSummary, summaryError, saveStatus, timers, sent,
                   clicks>>
    /\ UNCHANGED nonDashVars

\* The key field of the settings dialog (setApiKey); the effect on
\* [llmProvider, currentApiKey] resets testStatus
SetApiKey ==
    /\ Click
    /\ \E key \in StoredKeys \ {storedKey} : storedKey' = key
    /\ testStatus' = "idle"
    /\ UNCHANGED <<selectedRepos, dashData, loadingCommits, commitsError,
                   summary, loadingSummary, summaryError, saveStatus,
                   inFlight, timers, sent>>
    /\ UNCHANGED nonDashVars

\* testConnection: if (!currentApiKey) return; then the fetch of /api/llm/test
TestConnection ==
    /\ Click
    /\ Truthy(storedKey)
    /\ testStatus' = "testing"
    /\ Issue(TestRequest(storedKey))
    /\ UNCHANGED <<selectedRepos, storedKey, dashData, loadingCommits,
                   commitsError, summary, loadingSummary, summaryError,
                   saveStatus, timers>>
    /\ UNCHANGED nonDashVars

TestRespond ==
    /\ \E i \in 1..Len(inFlight) :
          /\ inFlight[i].route = "/api/llm/test"
          /\ inFlight' = Without(inFlight, i)
    /\ testStatus' \in {"success", "error"}
    /\ UNCHANGED <<selectedRepos, storedKey, dashData, loadingCommits,
                   commitsError, summary, loadingSummary, summaryError,
                   saveStatus, timers, sent, clicks>>
    /\ UNCHANGED nonDashVars

\* saveSummary up to its await: setSaveStatus("saving") and the fetch
SaveSummary(auto) ==
    /\ saveStatus' = "saving"
    /\ Issue(SaveRequest(auto))

\* generateSummary up to its await.  The Generate Summary button is
\* disabled={loadingSummary || commits.length === 0 || !apiKeys[llmProvider]}
\* and the Retry button of the error card shows when not loading.
ClickGenerate ==
    /\ Click
    /\ ~loadingSummary
    /\ (dashData.count > 0 /\ Truthy(storedKey)) \/ summaryError
    /\ IF ~Truthy(storedKey) \/ dashData.count = 0
       THEN /\ summaryError' = TRUE
            /\ UNCHANGED <<loadingSummary, saveStatus, inFlight, sent>>
       ELSE /\ loadingSummary' = TRUE
            /\ summaryError' = FALSE
            /\ saveStatus' = "idle"
            /\ Issue(SummaryRequest(storedKey))
    /\ UNCHANGED <<selectedRepos, storedKey, testStatus, dashData,
                   loadingCommits, commitsError, summary, timers>>
    /\ UNCHANGED nonDashVars

\* generateSummary after its await: setSummary(data.summary) and
\* await saveSummary(data.summary) on an ok response; setSummaryError and
\* setLoadingSummary(false) otherwise
SummaryRespond ==
    /\ \E i \in 1..Len(inFlight) :
          /\ inFlight[i].route = "/api/summary"
          /\ \E ok \in BOOLEAN :
                IF ok
                THEN /\ summary' = "result"
                     /\ saveStatus' = "saving"
                     /\ inFlight' = Append(Without(inFlight, i),
                                           SaveRequest(TRUE))
                     /\ sent' = sent \cup {Sent(SaveRequest(TRUE))}
                     /\ UNCHANGED <<summaryError, loadingSummary>>
                ELSE /\ summaryError' = TRUE
                     /\ loadingSummary' = FALSE
                     /\ inFlight' = Without(inFlight, i)
                     /\ UNCHANGED <<summary, saveStatus, sent>>
    /\ UNCHANGED <<selectedRepos, storedKey, testStatus, dashData,
                   loadingCommits, commitsError, timers, clicks>>
    /\ UNCHANGED nonDashVars

\* handleManualSave from the Save button of SummaryPanel, which renders
\* when not loading, without error, with a summary, and is
\* disabled={saveStatus === "saving" || saveStatus === "saved"}
ClickSave ==
    /\ Click
    /\ ~loadingSummary
    /\ ~summaryError
    /\ summary # "null"
    /\ saveStatus \notin {"saving", "saved"}
    /\ SaveSummary(FALSE)
    /\ UNCHANGED <<selectedRepos, storedKey, testStatus, dashData,
                   loadingCommits, commitsError, summary, loadingSummary,
                   summaryError, timers>>
    /\ UNCHANGED nonDashVars

\* saveSummary after its await: "saved" and the 3-second timer on an ok
\* response, "error" otherwise; generateSummary, when it was the caller,
\* then ends with setLoadingSummary(false)
SaveRespond ==
    /\ \E i \in 1..Len(inFlight) :
          /\ inFlight[i].route = "/api/summaries"
          /\ inFlight' = Without(inFlight, i)
          /\ loadingSummary' = IF inFlight[i].auto THEN FALSE
                               ELSE loadingSummary
    /\ \E ok \in BOOLEAN :
          IF ok
          THEN /\ saveStatus' = "saved"
               /\ timers' = timers + 1
          ELSE /\ saveStatus' = "error"
               /\ UNCHANGED timers
    /\ UNCHANGED <<selectedRepos, storedKey, testStatus, dashData,
                   loadingCommits, commitsError, summary, summaryError,
                   sent, clicks>>
    /\ UNCHANGED nonDashVars

\* setTimeout(() => setSaveStatus("idle"), 3000) fires
TimerFires ==
    /\ timers > 0
    /\ timers' = timers - 1
    /\ saveStatus' = "idle"
    /\ UNCHANGED <<selectedRepos, storedKey, testStatus, dashData,
                   loadingCommits, commitsError, summary, loadingSummary,
                   summaryError, inFlight, sent, clicks>>
    /\ UNCHANGED nonDashVars

NextDashboard ==
    \/ SelectRepos
    \/ Refresh
    \/ CommitsRespond
    \/ SetApiKey
    \/ TestConnection
    \/ TestRespond
    \/ ClickGenerate
    \/ SummaryRespond
    \/ ClickSave
    \/ SaveRespond
    \/ TimerFires

SpecDashboard == InitDashboard /\ [][NextDashboard]_vars

\* C21: no request of the browser to a route of the application carries an
\* API key, whatever the user does (set a key, test it, generate, save)
C21_NoKeySent == \A r \in sent : r.apiKey = Undefined

SaveInFlight == \E i \in 1..Len(inFlight) : inFlight[i].route = "/api/summaries"

\* C29: whenever a save request to /api/summaries is in flight, saveStatus
\* is "saving"
C29_SavingWhileInFlight == SaveInFlight => saveStatus = "saving"

CommitsInFlight == \E i \in 1..Len(inFlight) : inFlight[i].route = "/api/commits"

\* C30: once every /api/commits request has been answered, none of them
\* since the last one was issued with a failure, the data shown are those
\* returned for the last request issued, which asked for the selected repos
C30_LatestShown ==
    (~CommitsInFlight /\ Len(selectedRepos) > 0 /\ ~commitsError)
       => dashData.repos = selectedRepos

-----------------------------------------------------------------------------
(* getPreviousWorkingDay (lib/utils.ts).                                   *)
(*                                                                         *)
(* A Date is kept in local time as its day, counted from 1 January 2026    *)
(* (day 1, a Thursday), and the milliseconds since that day began.         *)

MonthLengths == <<31, 28, 31, 30, 31, 30, 31, 31, 30, 31, 30, 31>>

RECURSIVE DaysBefore(_)
DaysBefore(month) ==
    IF month = 1 THEN 0 ELSE DaysBefore(month - 1) + MonthLengths[month - 1]

\* the month (1..12) of a day of 2026
MonthOf(day) ==
    CHOOSE m \in 1..12 :
       DaysBefore(m) < day /\ day <= DaysBefore(m) + MonthLengths[m]

\* Date.prototype.getDate
GetDate(d) == d.day - DaysBefore(MonthOf(d.day))

\* Date.prototype.getDay: 0 is Sunday
GetDay(d) == (d.day + 3) % 7

\* Date.prototype.setDate: the day `date` of the month of d, where a date
\* below 1 counts back into the months before
SetDate(d, date) == [d EXCEPT !.day = DaysBefore(MonthOf(d.day)) + date]

\* Date.prototype.setHours(0, 0, 0, 0)
SetHoursZero(d) == [d EXCEPT !.ms = 0]

DaysToSubtract_AlwaysOne(dayOfWeek) == 1

\* the if-chain on dayOfWeek
DaysToSubtract(dayOfWeek) ==
    IF dayOfWeek = 1 THEN 3
    ELSE IF dayOfWeek = 0 THEN 2
    ELSE IF dayOfWeek = 6 THEN 1
    ELSE 1

getPreviousWorkingDay(today) ==
    SetHoursZero(SetDate(today, GetDate(today) - DaysToSubtract(GetDay(today))))

\* the moments new Date() may give: any day of 2026, at the start, just
\* after the start, at noon or in the last millisecond of the day
Moments ==
    [day : 1..(DaysBefore(12) + MonthLengths[12]),
     ms : {0, 1, 43200000, 86399999}]

InitDate ==
    /\ lastIndex = 0
    /\ call = Idle
    /\ InitGroupIdle
    /\ InitLLMIdle
    /\ InitPureIdle
    /\ InitDashIdle
    /\ InitRouteIdle
    /\ InitReposIdle
    /\ \E today \in Moments :
          dateCall = [pc |-> "called", today |-> today, result |-> today]

GetPreviousWorkingDay ==
    /\ dateCall.pc = "called"
    /\ dateCall' = [dateCall EXCEPT
                      !.pc = "returned",
                      !.result = getPreviousWorkingDay(dateCall.today)]
    /\ UNCHANGED nonDateVars

NextDate == GetPreviousWorkingDay

SpecDate == InitDate /\ [][NextDate]_vars

Before(a, b) == a.day < b.day \/ (a.day = b.day /\ a.ms < b.ms)

\* C22: getPreviousWorkingDay returns the start of a day that is strictly
\* before today and falls on Monday to Friday: the Friday before when today
\* is Saturday, Sunday or Monday, and yesterday otherwise
C22_PreviousWorkingDay ==
    dateCall.pc = "returned"
       => LET today == dateCall.today
              r == dateCall.result
          IN /\ Before(r, today)
             /\ r.ms = 0
             /\ GetDay(r) \in 1..5
             /\ GetDay(today) \in {6, 0, 1}
                   => GetDay(r) = 5 /\ today.day - r.day \in 1..3
             /\ GetDay(today) \in 2..5 => r.day = today.day - 1

\* Monday 2 March 2026 at noon gives Friday 27 February: setDate(-1)
C22_Witness ==
    /\ dateCall.pc = "returned"
    /\ dateCall.today = [day |-> 61, ms |-> 43200000]
    /\ GetDay(dateCall.today) = 1
    /\ GetDate(dateCall.today) = 2
    /\ dateCall.result = [day |-> 58, ms |-> 0]
    /\ MonthOf(58) = 2

-----------------------------------------------------------------------------
(* POST /api/commits (app/api/commits/route.ts), from the commits that      *)
(* fetchCommitsForRepos returned to the response.                           *)
(*                                                                         *)
(* fetchCommitsForRepos appends the commits of each repository of the body *)
(* and removes no repetition, so two commits of the list may have one sha  *)
(* (a repository and its fork).  fetchCommitDiff is imported from          *)
(* lib/github, which does not define it among the sources: a call of it is *)
(* one fetch, which gives the diff of the sha or fails.                    *)

RouteCommits == [sha : {"s1", "s2"}, message : PromptMessages]

DiffOf(sha) == <<"diff of ", sha>>

\* catch { throw }: the promise of the commit rejects with its fetch
DiffPromise_Rethrow(sha, fetched) ==
    IF fetched = "ok"
    THEN [settled |-> "fulfilled", sha |-> sha, diff |-> DiffOf(sha)]
    ELSE [settled |-> "rejected", sha |-> sha, diff |-> Undefined]

\* The async callback of commits.map: { sha, diff } when the fetch gave a
\* diff, { sha, diff: null } from the catch
DiffPromise(sha, fetched) ==
    IF fetched = "ok"
    THEN [settled |-> "fulfilled", sha |-> sha, diff |-> DiffOf(sha)]
    ELSE [settled |-> "fulfilled", sha |-> sha, diff |-> Undefined]

DiffPromises(cs, fetched) ==
    [i \in 1..Len(cs) |-> DiffPromise(cs[i].sha, fetched[i])]

\* diffs.forEach(({ sha, diff }) => { if (diff) diffMap.set(sha, diff) })
\* and then diffMap.get(sha): the last diff set for the sha
DiffMapGet(diffs, sha) ==
    IF \E i \in 1..Len(diffs) : diffs[i].sha = sha /\ Truthy(diffs[i].diff)
    THEN diffs[Greatest({ i \in 1..Len(diffs) :
                            diffs[i].sha = sha /\ Truthy(diffs[i].diff) })].diff
    ELSE Undefined

\* The callback of commits.map that builds formattedCommits
FormattedCommit(c, diffs) ==
    [sha |-> c.sha, message |-> c.message, branchName |-> Undefined,
     headBranch |-> Undefined, diff |-> DiffMapGet(diffs, c.sha)]

FormattedCommits(cs, diffs) ==
    [i \in 1..Len(cs) |-> FormattedCommit(cs[i], diffs)]

\* NextResponse.json({ commits: formattedCommits, ..., ticketGroups,
\* orphanCommits })
RouteOk(formatted) ==
    [status |-> 200, commits |-> formatted,
     grouped |-> groupCommitsByTicket(formatted)]

\* the catch of the handler
RouteFailed == [NoRouteResponse EXCEPT !.status = 500]

\* await Promise.all(diffPromises) and the rest of the handler
AfterDiffs(cs, promises) ==
    IF \E i \in 1..Len(promises) : promises[i].settled = "rejected"
    THEN RouteFailed
    ELSE RouteOk(FormattedCommits(cs, promises))

InitRoute ==
    /\ lastIndex = 0
    /\ call = Idle
    /\ InitGroupIdle
    /\ InitLLMIdle
    /\ InitPureIdle
    /\ InitDashIdle
    /\ dateCall = "none"
    /\ InitReposIdle
    /\ \E n \in 0..MaxCommits : rtCommits \in [1..n -> RouteCommits]
    /\ includeDiffs \in BOOLEAN
    /\ diffFetches = [i \in 1..Len(rtCommits) |-> "none"]
    /\ routePc = "commits"
    /\ routeResponse = NoRouteResponse

\* commits.map(async (commit) => ...): every callback runs to its await, so
\* every fetch is issued before any is answered
StartDiffFetches ==
    /\ routePc = "commits"
    /\ includeDiffs
    /\ diffFetches' = [i \in 1..Len(rtCommits) |-> "pending"]
    /\ routePc' = "awaiting"
    /\ UNCHANGED <<rtCommits, includeDiffs, routeResponse>>
    /\ UNCHANGED nonRouteVars

\* includeDiffs false: diffMap stays empty
SkipDiffs ==
    /\ routePc = "commits"
    /\ ~includeDiffs
    /\ routePc' = "responded"
    /\ routeResponse' = RouteOk(FormattedCommits(rtCommits, <<>>))
    /\ UNCHANGED <<rtCommits, includeDiffs, diffFetches>>
    /\ UNCHANGED nonRouteVars

\* one fetchCommitDiff is answered, with a diff or with a failure
DiffSettles ==
    /\ routePc = "awaiting"
    /\ \E i \in 1..Len(rtCommits) :
          /\ diffFetches[i] = "pending"
          /\ \E fetched \in {"ok", "failed"} :
                diffFetches' = [diffFetches EXCEPT ![i] = fetched]
    /\ UNCHANGED <<rtCommits, includeDiffs, routePc, routeResponse>>
    /\ UNCHANGED nonRouteVars

\* Promise.all settles once every promise has
RespondCommits ==
    /\ routePc = "awaiting"
    /\ \A i \in 1..Len(rtCommits) : diffFetches[i] # "pending"
    /\ routePc' = "responded"
    /\ routeResponse' = AfterDiffs(rtCommits, DiffPromises(rtCommits, diffFetches))
    /\ UNCHANGED <<rtCommits, includeDiffs, diffFetches>>
    /\ UNCHANGED nonRouteVars

NextRoute ==
    \/ StartDiffFetches
    \/ SkipDiffs
    \/ DiffSettles
    \/ RespondCommits

SpecRoute == InitRoute /\ [][NextRoute]_vars

InSomeGroup(r, i) ==
    \/ i \in Range(r.grouped.orphanCommits)
    \/ \E k \in 1..Len(r.grouped.ticketGroups) :
          i \in Range(r.grouped.ticketGroups[k].commits)

\* the request succeeded, with every commit returned and grouped and the
\* diff of every commit whose fetch succeeded attached
Degraded ==
    /\ routeResponse.status = 200
    /\ Len(routeResponse.commits) = Len(rtCommits)
    /\ \A i \in 1..Len(rtCommits) :
          /\ routeResponse.commits[i].sha = rtCommits[i].sha
          /\ InSomeGroup(routeResponse, i)
          /\ diffFetches[i] = "ok"
                => routeResponse.commits[i].diff = DiffOf(rtCommits[i].sha)

\* C25 (as claimed): whichever diff fetches fail and in whatever order they
\* are answered, the request succeeds, every commit is returned and
\* grouped, the other diffs are attached, and a commit whose fetch failed
\* has no diff
C25_FailedFetchNoDiff ==
    (routePc = "responded" /\ includeDiffs)
       => /\ Degraded
          /\ \A i \in 1..Len(rtCommits) :
                diffFetches[i] = "failed"
                   => routeResponse.commits[i].diff = Undefined

\* C25 (amended): as above, a commit whose fetch failed having no diff
\* unless the fetch for another commit of the same sha succeeded
C25_FailedFetchDegrades ==
    (routePc = "responded" /\ includeDiffs)
       => /\ Degraded
          /\ \A i \in 1..Len(rtCommits) :
                (/\ diffFetches[i] = "failed"
                 /\ \A j \in 1..Len(rtCommits) :
                       rtCommits[j].sha = rtCommits[i].sha
                          => diffFetches[j] = "failed")
                   => routeResponse.commits[i].diff = Undefined

\* two commits, the fetch for the first failed and the one for the second
\* gave its diff
C25_Witness ==
    /\ routePc = "responded"
    /\ includeDiffs
    /\ Len(rtCommits) = 2
    /\ rtCommits[1].sha # rtCommits[2].sha
    /\ diffFetches = <<"failed", "ok">>
    /\ routeResponse.status = 200
    /\ routeResponse.commits[1].diff = Undefined
    /\ routeResponse.commits[2].diff = DiffOf(rtCommits[2].sha)

InFlightDiffs ==
    Cardinality({ i \in 1..Len(diffFetches) : diffFetches[i] = "pending" })

\* C26: the diff fetches in flight stay under a fixed cap whatever the
\* number of commits; the cap is taken below the largest commit count of
\* the model, as any fixed cap is for a list long enough
C26_BoundedFanOut == InFlightDiffs < MaxCommits

-----------------------------------------------------------------------------
(* extractTicketFromBranch against extractJiraTickets (jira.ts 35-62)      *)

\* C27: extractTicketFromBranch agrees with the general extractor: a
\* non-null result for a branch name is one of the identifiers that
\* extractJiraTickets finds in the same name, and the result is null exactly
\* when extractJiraTickets finds none
C27_BranchAgreesWithGeneral ==
    call.op = "extractTicketFromBranch" =>
        /\ call.ticket # NoTicket =>
               call.ticket \in Range(extractJiraTickets(call.text))
        /\ call.ticket = NoTicket <=> extractJiraTickets(call.text) = <<>>

-----------------------------------------------------------------------------
(* fetchUserRepos of github.ts: the /user/repos pagination loop.  A page   *)
(* response is what the loop reads of it: whether it is ok, how many       *)
(* repositories it lists, and how many of their ids repoMap does not hold  *)
(* yet.  The organisation pass after the loop is not modelled.             *)

MaxPages == 8

perPage == 100

PageLengths == {0, 40, perPage}

PageResponses ==
    { [ok |-> o, length |-> l, fresh |-> f] :
        o \in BOOLEAN, l \in PageLengths, f \in {0, 40, perPage} }

\* repoMap.size after `for (const repo of data) repoMap.set(repo.id, repo)`
AfterSet(size, data) == size + data.fresh

\* if (repoMap.size >= 500) break;
CapReached(size) == size >= 500

\* The loop body after `await fetch(...)` has given the response
AfterPage(data) ==
    IF ~data.ok
    THEN /\ reposPc' = "threw"
         /\ UNCHANGED <<page, repoMapSize>>
    ELSE IF data.length = 0
    THEN /\ reposPc' = "listed"
         /\ UNCHANGED <<page, repoMapSize>>
    ELSE /\ repoMapSize' = AfterSet(repoMapSize, data)
         /\ IF data.length < perPage
            THEN /\ reposPc' = "listed"
                 /\ UNCHANGED page
            ELSE /\ page' = page + 1
                 /\ reposPc' = IF CapReached(AfterSet(repoMapSize, data))
                               THEN "listed" ELSE "loop"

InitRepos ==
    /\ lastIndex = 0
    /\ call = Idle
    /\ InitGroupIdle
    /\ InitLLMIdle
    /\ InitPureIdle
    /\ InitDashIdle
    /\ dateCall = "none"
    /\ InitRouteIdle
    /\ page = 1
    /\ repoMapSize = 0
    /\ reposPc = "loop"

\* while (true) { const response = await fetch(... &page=${page} ...)
RequestPage ==
    /\ reposPc = "loop"
    /\ page <= MaxPages
    /\ reposPc' = "waiting"
    /\ UNCHANGED <<page, repoMapSize>>
    /\ UNCHANGED nonRepoVars

PageArrives ==
    /\ reposPc = "waiting"
    /\ \E data \in PageResponses :
         /\ data.fresh <= data.length
         /\ AfterPage(data)
    /\ UNCHANGED nonRepoVars

NextRepos ==
    \/ RequestPage
    \/ PageArrives

SpecRepos == InitRepos /\ [][NextRepos]_vars

\* C28: the pagination loop of fetchUserRepos ends after a bounded number of
\* page requests, the 500-repository cap bounding it: whatever the
\* successful page responses hold, no page beyond the fifth (500 / perPage)
\* is requested
C28_BoundedPageRequests ==
    reposPc = "waiting" => page <= 500 \div perPage

=============================================================================
